---------------------------- MODULE Spec2Model ----------------------------
(***************************************************************************)
(* Hand-drawn chart library: the path jitter routines, the closed shape    *)
(* generators, the fill-pattern generators and adjustColor.                *)
(*                                                                         *)
(* Numbers.  JavaScript numbers are modelled as exact rationals kept as    *)
(* integers over a stated unit.  Math.random() is r / RandDen for an       *)
(* integer r in 0 .. RandDen-1, so it ranges over [0, 1) as in the host.   *)
(***************************************************************************)
EXTENDS Integers, Sequences, FiniteSets, TLC

VARIABLES
    body,       \* children of document.body added by the library, in order
    defs,       \* the <pattern> elements of the document, in document order
    bodyColor,  \* the computed colour of document.body (inherited by children)
    graph,      \* the line graph createGraph drew last, with its tooltip
    pie,        \* the pie chart createPieChart drew last, with its tooltip
    tip,        \* an XkcdTooltip a caller constructed directly
    ret         \* the call that has just ended and what it returned

vars == <<body, defs, bodyColor, graph, pie, tip, ret>>

(***************************************************************************)
(* Bounds of the model.                                                    *)
(***************************************************************************)
RandDen == 2        \* Math.random() takes the values 0/RandDen .. (RandDen-1)/RandDen
MaxN == 3           \* largest numPoints handed to addHandDrawnEffect
MaxLeak == 2        \* most temporary elements left behind in document.body
MaxPatterns == 2    \* most <pattern> elements registered in the document
MaxColors == 2      \* longest colour array handed to a pattern-set builder
FullDraws == 6      \* longest random stream of which every value is enumerated

Rand == 0 .. (RandDen - 1)

Abs(v) == IF v < 0 THEN -v ELSE v
Max2(a, b) == IF a >= b THEN a ELSE b
Min2(a, b) == IF a <= b THEN a ELSE b

NoCall == [op |-> "none"]
NoGraph == [drawn |-> FALSE]
NoPie == [drawn |-> FALSE]

\* let tooltip = null
NoTooltip == [created |-> FALSE]

(***************************************************************************)
(* The random source.  A call consumes the draws of one stream in order.   *)
(* AllDraws: every stream of the given length.  EdgeDraws: for the long    *)
(* loops, every choice of the first two draws, of the last two draws and   *)
(* of one value shared by the draws in between.  Draws: AllDraws up to     *)
(* FullDraws draws, EdgeDraws beyond.                                      *)
(***************************************************************************)
AllDraws(len) == [1 .. len -> Rand]

EdgeDraws(len) ==
    { [k \in 1 .. len |->
          IF k <= 2 THEN h[k]
          ELSE IF k > len - 2 THEN t[k - (len - 2)]
          ELSE m] : h \in [1 .. 2 -> Rand], t \in [1 .. 2 -> Rand], m \in Rand }

Draws(len) == IF len <= FullDraws THEN AllDraws(len) ELSE EdgeDraws(len)

\* for the charts, whose calls draw hundreds of values: the streams that repeat
\* one value and those that step through the values in turn
ChartDraws(len) ==
    { [k \in 1 .. len |-> (first + step * (k - 1)) % RandDen] :
        first \in Rand, step \in {0, 1} }

(***************************************************************************)
(* The host's path measurement.  A path is a polyline of axis-parallel     *)
(* segments with integer vertices, so that arc lengths are integers.       *)
(* The empty path stands for a path string the host could not parse        *)
(* (null, ""), as createGraph hands over for a series without data.        *)
(***************************************************************************)
Pt(a, b) == [x |-> a, y |-> b]

HLine == <<Pt(0, 0), Pt(100, 0)>>
Bend == <<Pt(0, 0), Pt(6, 0), Pt(6, 9)>>
ZeroPath == <<Pt(5, 5)>>
EmptyPath == <<>>

OpenPaths == {HLine, Bend, ZeroPath, EmptyPath}

Square == <<Pt(0, 0), Pt(10, 0), Pt(10, 10), Pt(0, 10), Pt(0, 0)>>
Slab == <<Pt(0, 0), Pt(40, 0), Pt(40, 15), Pt(0, 15), Pt(0, 0)>>

ArcPaths == {Square, Slab}

SegLen(p, k) == Abs(p[k + 1].x - p[k].x) + Abs(p[k + 1].y - p[k].y)

RECURSIVE LengthFrom(_, _)
LengthFrom(p, k) == IF k >= Len(p) THEN 0 ELSE SegLen(p, k) + LengthFrom(p, k + 1)

\* path.getTotalLength()
getTotalLength(p) == LengthFrom(p, 1)

Sign(v) == IF v > 0 THEN 1 ELSE IF v < 0 THEN -1 ELSE 0

\* The point at arc length num/den from vertex k on, its coordinates times den.
RECURSIVE Walk(_, _, _, _)
Walk(p, k, num, den) ==
    IF k >= Len(p) THEN Pt(den * p[k].x, den * p[k].y)
    ELSE IF num <= den * SegLen(p, k)
         THEN Pt(den * p[k].x + Sign(p[k + 1].x - p[k].x) * num,
                 den * p[k].y + Sign(p[k + 1].y - p[k].y) * num)
         ELSE Walk(p, k + 1, num - den * SegLen(p, k), den)

\* path.getPointAtLength(num/den), coordinates times den; the host clamps
\* the distance to [0, getTotalLength()].
getPointAtLength(p, num, den) ==
    Walk(p, 1, Max2(0, Min2(num, den * getTotalLength(p))), den)

\* An empty path makes getPointAtLength raise InvalidStateError in hosts that
\* follow SVG 2 and return the origin in older ones.
MeasureOutcomes(p) == IF Len(p) = 0 THEN {"throws", "origin"} ELSE {"point"}

(***************************************************************************)
(* document.body                                                           *)
(***************************************************************************)
appendChild(children, e) == Append(children, e)

RECURSIVE removeChild(_, _)
removeChild(children, e) ==
    IF children = <<>> THEN <<>>
    ELSE IF Head(children) = e THEN Tail(children)
    ELSE <<Head(children)>> \o removeChild(Tail(children), e)

(***************************************************************************)
(* addHandDrawnEffect(pathString, jitterAmount, numPoints)                 *)
(* jitterAmount is given in tenths (j10 = 19 is the 1.9 of defaultConfig). *)
(* Coordinates of the control points are in units of 1/JUnit(numPoints).   *)
(***************************************************************************)
JitterAmounts == {0, 19, 20}

JUnit(n) == 20 * RandDen * n

\* the offset not halved: (Math.random() - 0.5) * 2 * jitterAmount
JitterOffsetFull(r, j10) == 2 * (2 * r - RandDen) * j10

\* the offset with jitterAmount ignored: (Math.random() - 0.5) * 2
JitterOffsetUnscaled(r, j10) == (2 * r - RandDen) * 20

\* (Math.random() - 0.5) * jitterAmount, in units of 1/(20*RandDen)
JitterOffset(r, j10) == (2 * r - RandDen) * j10

\* the loop stopping one short: for (let i = 0; i < numPoints; i++)
SampleIndicesShort(n) == 0 .. (n - 1)

\* the indices i the sampling loop visits: for (let i = 0; i <= numPoints; i++)
SampleIndices(n) == 0 .. n

\* the sample of index i: the point measured at length*i/numPoints, jittered
JitteredSample(p, j10, n, i, rx, ry, outcome) ==
    LET q == IF outcome = "origin" THEN Pt(0, 0)
             ELSE getPointAtLength(p, getTotalLength(p) * i, n)
    IN  Pt(20 * RandDen * q.x + n * JitterOffset(rx, j10),
           20 * RandDen * q.y + n * JitterOffset(ry, j10))

\* The control points and the arc lengths asked of the host, in loop order.
SampledPoints(p, j10, n, draws, outcome) ==
    [k \in 1 .. Cardinality(SampleIndices(n)) |->
        JitteredSample(p, j10, n, k - 1, draws[2 * k - 1], draws[2 * k], outcome)]

SampledLengths(p, n) ==
    [k \in 1 .. Cardinality(SampleIndices(n)) |-> getTotalLength(p) * (k - 1)]

addHandDrawnEffect(p, j10, n, draws, outcome) ==
    /\ ret = NoCall
    /\ IF outcome = "throws"
       THEN \* getPointAtLength raises: the call ends before removeChild
            /\ Len(body) < MaxLeak
            /\ body' = appendChild(body, "svg")
            /\ ret' = [op |-> "addHandDrawnEffect", path |-> p, jitter |-> j10,
                       numPoints |-> n, threw |-> TRUE]
       ELSE /\ body' = removeChild(appendChild(body, "svg"), "svg")
            /\ ret' = [op |-> "addHandDrawnEffect", path |-> p, jitter |-> j10,
                       numPoints |-> n, threw |-> FALSE,
                       lengths |-> SampledLengths(p, n),
                       curve |-> "curveBasis",
                       points |-> SampledPoints(p, j10, n, draws, outcome)]
    /\ UNCHANGED <<defs, bodyColor, graph, pie, tip>>

(***************************************************************************)
(* handDrawnArc(d, arc, jitter): the pie-arc jitter.  arc(d) is a closed   *)
(* outline; it is sampled like an open path and the samples are handed to  *)
(* the closed curve fit.                                                   *)
(***************************************************************************)
ArcMinPoints == 20
ArcStep == 5

\* Math.max(20, Math.floor(length / 5))
ArcNumPoints(len) == Max2(ArcMinPoints, len \div ArcStep)

\* the control points handed to curveBasisClosed by handDrawnArc
ArcPoints(p, j10, draws) ==
    SampledPoints(p, j10, ArcNumPoints(getTotalLength(p)), draws, "point")

handDrawnArc(p, j10, draws) ==
    /\ ret = NoCall
    /\ body' = removeChild(appendChild(body, "svg"), "svg")
    /\ ret' = [op |-> "handDrawnArc", path |-> p, jitter |-> j10,
               numPoints |-> ArcNumPoints(getTotalLength(p)), threw |-> FALSE,
               lengths |-> SampledLengths(p, ArcNumPoints(getTotalLength(p))),
               curve |-> "curveBasisClosed",
               points |-> ArcPoints(p, j10, draws)]
    /\ UNCHANGED <<defs, bodyColor, graph, pie, tip>>

(***************************************************************************)
(* createHandDrawnRect(x, y, width, height, jitter)                        *)
(* Coordinates in units of 1/RUnit.                                        *)
(***************************************************************************)
RectSidePoints == 20

RUnit == 20 * RandDen * RectSidePoints

Rects == { [x |-> -10, y |-> -8, width |-> 125, height |-> 96],
           [x |-> 0, y |-> 0, width |-> 0, height |-> 0] }

\* a + (b - a) * (i / numPoints), in units of 1/RUnit
RAlong(a, b, i) == 20 * RandDen * (RectSidePoints * a + (b - a) * i)

\* a + (Math.random() - 0.5) * jitter, in units of 1/RUnit
RJitter(a, r, j10) == RUnit * a + RectSidePoints * JitterOffset(r, j10)

\* the points of the four edge loops, in loop order
RectEdgePoints(rc, j10, draws) ==
    LET N == RectSidePoints + 1
        x0 == rc.x
        x1 == rc.x + rc.width
        y0 == rc.y
        y1 == rc.y + rc.height
    IN  [k \in 1 .. 4 * N |->
            LET i == (k - 1) % N
            IN  CASE k <= N     -> Pt(RAlong(x0, x1, i), RJitter(y0, draws[k], j10))
                  [] k <= 2 * N -> Pt(RJitter(x1, draws[k], j10), RAlong(y0, y1, i))
                  [] k <= 3 * N -> Pt(RAlong(x1, x0, i), RJitter(y1, draws[k], j10))
                  [] OTHER      -> Pt(RJitter(x0, draws[k], j10), RAlong(y1, y0, i))]

\* points.push(points[0])
ClosePath(points) == Append(points, points[1])

createHandDrawnRect(rc, j10, draws) ==
    /\ ret = NoCall
    /\ ret' = [op |-> "createHandDrawnRect", rect |-> rc, jitter |-> j10,
               threw |-> FALSE, curve |-> "curveBasisClosed",
               points |-> ClosePath(RectEdgePoints(rc, j10, draws))]
    /\ UNCHANGED <<body, defs, bodyColor, graph, pie, tip>>

(***************************************************************************)
(* createHandDrawnCircle(cx, cy, radius, jitter)                           *)
(* Math.cos and Math.sin of the 40 angles are taken to three decimals;     *)
(* coordinates in units of 1/CUnit.                                        *)
(***************************************************************************)
CirclePoints == 40

CUnit == 20 * RandDen * 1000

CosTable ==
    <<1000, 988, 951, 891, 809, 707, 588, 454, 309, 156,
      0, -156, -309, -454, -588, -707, -809, -891, -951, -988,
      -1000, -988, -951, -891, -809, -707, -588, -454, -309, -156,
      0, 156, 309, 454, 588, 707, 809, 891, 951, 988>>

\* 1000 * Math.cos((i / numPoints) * 2 * Math.PI)
CosMilli(i) == CosTable[(i % CirclePoints) + 1]
\* 1000 * Math.sin((i / numPoints) * 2 * Math.PI)
SinMilli(i) == CosTable[((i + 30) % CirclePoints) + 1]

Circles == { [cx |-> 50, cy |-> 40, radius |-> 30],
             [cx |-> 7, cy |-> 7, radius |-> 0] }

\* the points of the loop: for (let i = 0; i < numPoints; i++)
CirclePointList(c, j10, draws) ==
    [k \in 1 .. CirclePoints |->
        LET adjustedRadius == 20 * RandDen * c.radius + JitterOffset(draws[k], j10)
        IN  Pt(CUnit * c.cx + CosMilli(k - 1) * adjustedRadius,
               CUnit * c.cy + SinMilli(k - 1) * adjustedRadius)]

createHandDrawnCircle(c, j10, draws) ==
    /\ ret = NoCall
    /\ ret' = [op |-> "createHandDrawnCircle", circle |-> c, jitter |-> j10,
               threw |-> FALSE, curve |-> "curveBasisClosed",
               points |-> ClosePath(CirclePointList(c, j10, draws))]
    /\ UNCHANGED <<body, defs, bodyColor, graph, pie, tip>>

(***************************************************************************)
(* Exact rationals [n, d] with d > 0, in lowest terms.                     *)
(***************************************************************************)
RECURSIVE GCD(_, _)
GCD(a, b) == IF b = 0 THEN a ELSE GCD(b, a % b)

Q(n, d) ==
    LET g == GCD(Abs(n), Abs(d))
        sg == IF d < 0 THEN -1 ELSE 1
    IN  [n |-> sg * (n \div g), d |-> sg * (d \div g)]

QInt(k) == [n |-> k, d |-> 1]

QAdd(a, b) ==
    LET g == GCD(a.d, b.d)
    IN  Q(a.n * (b.d \div g) + b.n * (a.d \div g), (a.d \div g) * b.d)

QNeg(a) == [n |-> -a.n, d |-> a.d]
QSub(a, b) == QAdd(a, QNeg(b))

QMul(a, b) ==
    LET g1 == GCD(Abs(a.n), b.d)
        g2 == GCD(Abs(b.n), a.d)
    IN  IF a.n = 0 \/ b.n = 0 THEN QInt(0)
        ELSE [n |-> (a.n \div g1) * (b.n \div g2), d |-> (a.d \div g2) * (b.d \div g1)]

\* a / b for b # 0
QDiv(a, b) == QMul(a, IF b.n < 0 THEN [n |-> -b.d, d |-> -b.n] ELSE [n |-> b.d, d |-> b.n])

QLt(a, b) == QSub(a, b).n < 0
QLe(a, b) == QSub(a, b).n <= 0
QMax(a, b) == IF QLt(a, b) THEN b ELSE a
QMin(a, b) == IF QLt(b, a) THEN b ELSE a

\* k*a = q*a.d + r with 0 <= r < a.d, for a >= 0, kept below a.d throughout
RECURSIVE MulDivMod(_, _)
MulDivMod(k, a) ==
    IF k = 0 THEN [q |-> 0, r |-> 0]
    ELSE LET h == MulDivMod(k \div 2, a)
             dq == IF h.r >= a.d - h.r THEN 1 ELSE 0
             q2 == 2 * h.q + dq
             r2 == IF dq = 1 THEN h.r - (a.d - h.r) ELSE h.r + h.r
             an == a.n % a.d
             aq == a.n \div a.d
         IN  IF k % 2 = 0 THEN [q |-> q2, r |-> r2]
             ELSE IF r2 >= a.d - an
                  THEN [q |-> q2 + aq + 1, r |-> r2 - (a.d - an)]
                  ELSE [q |-> q2 + aq, r |-> r2 + an]

\* Math.round(a * k) for a >= 0: halves round up
RoundMul(a, k) ==
    LET m == MulDivMod(k, a)
    IN  m.q + (IF m.r >= a.d - m.r THEN 1 ELSE 0)

\* Math.random() as a number
RandQ(r) == Q(r, RandDen)

\* (Math.random() - 0.5)
Centred(r) == Q(2 * r - RandDen, 2 * RandDen)

(***************************************************************************)
(* Colours.  A colour string is kept with the form it is written in:       *)
(*   "hex"  #rrggbb              "rgb"   rgb(r, g, b)                      *)
(*   "rgba" rgba(r, g, b, a)     "bad"   a string that is no CSS colour    *)
(* alpha is in hundredths.                                                 *)
(***************************************************************************)
Hex(r, g, b) == [form |-> "hex", rgb |-> <<r, g, b>>]
Rgb(r, g, b) == [form |-> "rgb", rgb |-> <<r, g, b>>]
Rgba(r, g, b, a) == [form |-> "rgba", rgb |-> <<r, g, b>>, alpha |-> a]
BadColor == [form |-> "bad"]

\* tempElement.style.color = color; window.getComputedStyle(tempElement).color
\* The host drops a declaration it cannot parse, and color is inherited: the
\* element then has the colour of document.body.  An opaque colour is
\* serialised as rgb(r, g, b), any other as rgba(r, g, b, a).
getComputedColor(c, inherited) ==
    CASE c.form = "bad"  -> inherited
      [] c.form = "rgba" -> c
      [] OTHER           -> Rgb(c.rgb[1], c.rgb[2], c.rgb[3])

\* computedColor.match(/rgb\((\d+),\s*(\d+),\s*(\d+)\)/)
rgbMatch(computed) == computed.form = "rgb"

\* the dark-colour formula used for every lightness
SaturationDarkOnly(max, min, l) == QDiv(QSub(max, min), QAdd(max, min))

\* s = l > 0.5 ? d / (2 - max - min) : d / (max + min)
Saturation(max, min, l) ==
    IF QLt(Q(1, 2), l)
    THEN QDiv(QSub(max, min), QSub(QSub(QInt(2), max), min))
    ELSE QDiv(QSub(max, min), QAdd(max, min))

\* l = (max + min) / 2
Lightness(max, min) == QDiv(QAdd(max, min), QInt(2))

\* the switch on max, then h /= 6
Hue(r, g, b, max, min) ==
    LET d == QSub(max, min)
        h == IF max = r
             THEN QAdd(QDiv(QSub(g, b), d), IF QLt(g, b) THEN QInt(6) ELSE QInt(0))
             ELSE IF max = g
             THEN QAdd(QDiv(QSub(b, r), d), QInt(2))
             ELSE QAdd(QDiv(QSub(r, g), d), QInt(4))
    IN  QDiv(h, QInt(6))

\* Convert RGB to HSL
RgbToHsl(rgb) ==
    LET r == Q(rgb[1], 255)
        g == Q(rgb[2], 255)
        b == Q(rgb[3], 255)
        max == QMax(QMax(r, g), b)
        min == QMin(QMin(r, g), b)
        l == Lightness(max, min)
    IN  IF max = min
        THEN [h |-> QInt(0), s |-> QInt(0), l |-> l]
        ELSE [h |-> Hue(r, g, b, max, min), s |-> Saturation(max, min, l), l |-> l]

\* the adjusted value left as it is
NoClamp(v) == v

\* Math.max(0, Math.min(1, v))
Clamp01(v) == QMax(QInt(0), QMin(QInt(1), v))

hue2rgb(p, q, t0) ==
    LET t1 == IF QLt(t0, QInt(0)) THEN QAdd(t0, QInt(1)) ELSE t0
        t == IF QLt(QInt(1), t1) THEN QSub(t1, QInt(1)) ELSE t1
    IN  IF QLt(t, Q(1, 6)) THEN QAdd(p, QMul(QMul(QSub(q, p), QInt(6)), t))
        ELSE IF QLt(t, Q(1, 2)) THEN q
        ELSE IF QLt(t, Q(2, 3))
             THEN QAdd(p, QMul(QMul(QSub(q, p), QSub(Q(2, 3), t)), QInt(6)))
        ELSE p

\* Convert back to RGB, then to the 0-255 range
HslToRgb(h, s, l) ==
    IF s = QInt(0)
    THEN <<RoundMul(l, 255), RoundMul(l, 255), RoundMul(l, 255)>>
    ELSE LET q == IF QLt(l, Q(1, 2))
                  THEN QMul(l, QAdd(QInt(1), s))
                  ELSE QSub(QAdd(l, s), QMul(l, s))
             p == QSub(QMul(QInt(2), l), q)
         IN  <<RoundMul(hue2rgb(p, q, QAdd(h, Q(1, 3))), 255),
               RoundMul(hue2rgb(p, q, h), 255),
               RoundMul(hue2rgb(p, q, QSub(h, Q(1, 3))), 255)>>

\* What adjustColor computes: brightnessDelta is a whole number,
\* saturationDelta is given in hundredths.
AdjustColor(c, brightnessDelta, sat100, inherited) ==
    LET computed == getComputedColor(c, inherited)
    IN  IF ~rgbMatch(computed)
        THEN [parsed |-> FALSE, value |-> c]
        ELSE LET hsl == RgbToHsl(computed.rgb)
                 s == Clamp01(QAdd(hsl.s, Q(sat100, 100)))
                 l == Clamp01(QAdd(hsl.l, Q(brightnessDelta, 100)))
                 out == HslToRgb(hsl.h, s, l)
             IN  [parsed |-> TRUE, from |-> computed.rgb, s |-> s, l |-> l,
                  value |-> Rgb(out[1], out[2], out[3])]

BrightnessDeltas == {-1000, -25, -20, -15, 0, 15, 25, 35, 1000}
SaturationDeltas == {-1000, -15, -10, 0, 10, 15, 1000}

ChannelValues == {0, 1, 99, 128, 206, 255}

ColorStrings ==
    { Hex(r, g, b) : r \in ChannelValues, g \in ChannelValues, b \in ChannelValues }
    \cup { Rgb(75, 192, 192), Rgb(54, 162, 235), Hex(255, 99, 132), Hex(70, 130, 180),
           Rgba(255, 0, 0, 50), Rgba(0, 0, 0, 0), BadColor }

BodyColors == { Rgb(0, 0, 0), Rgba(0, 0, 0, 87) }

adjustColor(c, brightnessDelta, sat100) ==
    /\ ret = NoCall
    /\ body' = removeChild(appendChild(body, "div"), "div")
    /\ ret' = [op |-> "adjustColor", color |-> c,
               brightnessDelta |-> brightnessDelta, saturationDelta |-> sat100,
               threw |-> FALSE,
               result |-> AdjustColor(c, brightnessDelta, sat100, bodyColor)]
    /\ UNCHANGED <<defs, bodyColor, graph, pie, tip>>

(***************************************************************************)
(* Fill patterns.  A <pattern> element is [id, width, height, children];   *)
(* children are in the order they were appended.  A texture path is        *)
(* painted with a tone adjustColor derives from the base colour; the       *)
(* document model keeps the base colour of the tone, not its value.        *)
(***************************************************************************)
Null == [form |-> "null"]

Tone(color) == [toneOf |-> color]

\* .attr("fill", "none") / .attr("stroke", "none")
NoPaint == [toneOf |-> [form |-> "none"]]

\* `url(#${patternId})`
Url(patternId) == [url |-> patternId]

\* Math.random().toString(36).substr(2, 9)
Base36(r) == <<"base36", r>>

Concat(prefix, suffix) == [prefix |-> prefix, suffix |-> suffix]

WatercolorBlobs == 4
DefaultTile == 120

\* addWatercolorTexture(pattern, width, height, color, numBlobs): the paths it appends
addWatercolorTexture(color, numBlobs) ==
    [i \in 1 .. numBlobs |-> [tag |-> "path", fill |-> Tone(color), stroke |-> NoPaint]]

\* the loop stopping one short: for (let i = 0; i < density; i++)
StrokeIndicesShort(density) == 0 .. (density - 1)

\* the indices of the stroke loop: for (let i = 0; i <= density; i++)
StrokeIndices(density) == 0 .. density

\* const lineSpacing = height / (density + 1)
LineSpacing(height, density) == Q(height, density + 1)

\* the strokes centred in the tile: (i + 0.5) * lineSpacing - height / 2
StrokeOffsetCentred(i, height, density) ==
    QSub(QMul(Q(2 * i + 1, 2), LineSpacing(height, density)), Q(height, 2))

\* const offset = i * lineSpacing - height / 2
StrokeOffset(i, height, density) ==
    QSub(QMul(QInt(i), LineSpacing(height, density)), Q(height, 2))

\* the stroke paths of a directional pattern, in loop order.  A stroke runs
\* from centre - (cos, sin) * diagonalLength / 2 + (sin, -cos) * offset to
\* centre + (cos, sin) * diagonalLength / 2 + (sin, -cos) * offset: along the
\* direction angle, at the signed distance offset from the centre line.
ScribbleStrokes(color, density, height, direction) ==
    [k \in 1 .. Cardinality(StrokeIndices(density)) |->
        [tag |-> "path", fill |-> NoPaint, stroke |-> Tone(color),
         angle |-> direction, slot |-> k - 1,
         offset |-> StrokeOffset(k - 1, height, density)]]

\* the background rect of a pattern
BackgroundRect(color, width, height) ==
    [tag |-> "rect", width |-> width, height |-> height, fill |-> color]

\* const patternId = id || `scribble-${...}`
ScribbleId(id, r) == IF id = Null THEN Concat("scribble-", Base36(r)) ELSE id

\* the strokes laid down before the texture
DirectionalPatternStrokesFirst(patternId, color, density, width, height, direction) ==
    [id |-> patternId, width |-> width, height |-> height,
     children |-> <<BackgroundRect(color, width, height)>>
                  \o ScribbleStrokes(color, density, height, direction)
                  \o addWatercolorTexture(color, WatercolorBlobs)]

\* the <pattern> element createDirectionalScribblePattern appends to defs
DirectionalPattern(patternId, color, density, width, height, direction) ==
    [id |-> patternId, width |-> width, height |-> height,
     children |-> <<BackgroundRect(color, width, height)>>
                  \o addWatercolorTexture(color, WatercolorBlobs)
                  \o ScribbleStrokes(color, density, height, direction)]

LargeBlobs == 6
\* a second pass of another length
MediumBlobsLong == LargeBlobs + 3
MediumBlobs == 8
SmallBlobs == 12
BrushStrokes == 6

\* const patternId = id || `oil-paint-${...}`
OilPaintId(id, r) == IF id = Null THEN Concat("oil-paint-", Base36(r)) ELSE id

(***************************************************************************)
(* The draws of one createOilPaintPattern call: id for the generated id,   *)
(* dir for the stroke direction, blob for the tone, saturation, radii and  *)
(* opacity of a blob, stroke for the four end-point offsets of a brush     *)
(* stroke.  The odd blobs of a layer and the odd strokes use the draws as  *)
(* given, the even ones the mirrored draws, so that a layer holds both     *)
(* tones.  The positions and outlines of the blobs are not modelled.       *)
(***************************************************************************)
BlobDraw == [{"tone", "sat", "rx", "ry", "op"} -> Rand]
StrokeDraw == [{"sx", "sy", "ex", "ey"} -> Rand]

Mirror(r) == RandDen - 1 - r
DrawAt(draw, k) == IF k % 2 = 1 THEN draw ELSE [f \in DOMAIN draw |-> Mirror(draw[f])]

\* Math.random() < num / den
Below(r, num, den) == den * r < num * RandDen

\* lo + Math.random() * span
Spread(lo, span, r) == QAdd(lo, QMul(RandQ(r), span))

\* every brightness shift of the second layer positive
MediumShiftLight(isHighlight) == 25

\* const colorShift = isHighlight ? 25 : -15
MediumShift(isHighlight) == IF isHighlight THEN 25 ELSE -15

\* first layer: the blob of index k - 1
LargeBlob(color, d) ==
    [tag |-> "path", fill |-> Tone(color), stroke |-> NoPaint, layer |-> 1,
     highlight |-> ~Below(d["tone"], 1, 2),
     brightness |-> IF Below(d["tone"], 1, 2) THEN -20 ELSE 15,
     saturation |-> IF Below(d["sat"], 3, 10) THEN Q(-15, 100) ELSE Q(10, 100),
     rx |-> Spread(QInt(25), QInt(50), d["rx"]),
     ry |-> Spread(QInt(20), QInt(40), d["ry"]),
     opacity |-> Spread(Q(2, 10), Q(3, 10), d["op"])]

\* second layer
MediumBlob(color, d) ==
    LET isHighlight == Below(d["tone"], 3, 10)
    IN  [tag |-> "path", fill |-> Tone(color), stroke |-> NoPaint, layer |-> 2,
         highlight |-> isHighlight,
         brightness |-> MediumShift(isHighlight),
         saturation |-> IF isHighlight THEN Q(10, 100) ELSE Q(-10, 100),
         rx |-> Spread(QInt(10), QInt(30), d["rx"]),
         ry |-> Spread(QInt(8), QInt(25), d["ry"]),
         opacity |-> Spread(Q(15, 100), Q(25, 100), d["op"])]

\* third layer
SmallBlob(color, d) ==
    LET isHighlight == Below(d["tone"], 4, 10)
    IN  [tag |-> "path", fill |-> Tone(color), stroke |-> NoPaint, layer |-> 3,
         highlight |-> isHighlight,
         brightness |-> IF isHighlight THEN 35 ELSE -25,
         saturation |-> IF isHighlight THEN Q(15, 100) ELSE Q(-10, 100),
         rx |-> Spread(QInt(4), QInt(12), d["rx"]),
         ry |-> Spread(QInt(3), QInt(10), d["ry"]),
         opacity |-> IF isHighlight THEN Spread(Q(2, 10), Q(3, 10), d["op"])
                     ELSE Spread(Q(1, 10), Q(2, 10), d["op"])]

\* the strokes one step closer to the origin: (i - 3) * 20
BrushOffsetWhole(i) == QInt((i - 3) * 20)

\* const offset = (i - 2.5) * 20
BrushOffset(i) == QMul(Q(2 * i - 5, 2), QInt(20))

BrushCentre == 60
BrushJitter == 15

\* the brush stroke of index i: its end points before generateBrushStroke
BrushStroke(color, horizontal, i, d) ==
    LET across == QAdd(QInt(BrushCentre), BrushOffset(i))
        startX == IF horizontal THEN QInt(0) ELSE across
        startY == IF horizontal THEN across ELSE QInt(0)
        endX == IF horizontal THEN QInt(DefaultTile) ELSE across
        endY == IF horizontal THEN across ELSE QInt(DefaultTile)
        shift(r) == QMul(Centred(r), QInt(BrushJitter))
    IN  [tag |-> "path", fill |-> NoPaint, stroke |-> Tone(color),
         angle |-> IF horizontal THEN 0 ELSE 90, slot |-> i,
         start |-> Pt(QAdd(startX, shift(d["sx"])), QAdd(startY, shift(d["sy"]))),
         end |-> Pt(QAdd(endX, shift(d["ex"])), QAdd(endY, shift(d["ey"])))]

\* the <pattern> element createOilPaintPattern appends to defs
OilPaintPattern(patternId, color, draws) ==
    LET horizontal == Below(draws.dir, 1, 2)
    IN  [id |-> patternId, width |-> DefaultTile, height |-> DefaultTile,
         children |-> <<BackgroundRect(color, DefaultTile, DefaultTile)>>
                  \o [i \in 1 .. LargeBlobs |-> LargeBlob(color, DrawAt(draws.blob, i))]
                  \o [i \in 1 .. MediumBlobs |-> MediumBlob(color, DrawAt(draws.blob, i))]
                  \o [i \in 1 .. SmallBlobs |-> SmallBlob(color, DrawAt(draws.blob, i))]
                  \o [i \in 1 .. BrushStrokes |->
                        BrushStroke(color, horizontal, i - 1, DrawAt(draws.stroke, i))]]

\* one value for every draw of a call
OilDrawsOf(r) ==
    [id |-> r, dir |-> r, blob |-> [f \in {"tone", "sat", "rx", "ry", "op"} |-> r],
     stroke |-> [f \in {"sx", "sy", "ex", "ey"} |-> r]]

\* the draws enumerated for a single call: every blob draw with the strokes
\* fixed, and every stroke draw with the blobs fixed
OilDraws ==
    { [id |-> i, dir |-> d, blob |-> b, stroke |-> OilDrawsOf(0).stroke] :
        i \in Rand, d \in Rand, b \in BlobDraw }
    \cup
    { [id |-> i, dir |-> d, blob |-> OilDrawsOf(0).blob, stroke |-> t] :
        i \in Rand, d \in Rand, t \in StrokeDraw }

\* Every texture tone is an adjustColor call: a <div> appended to and removed
\* from document.body.
BodyAfterTones(children) == removeChild(appendChild(children, "div"), "div")

Palette == { Hex(255, 99, 132), Hex(54, 162, 235) }

Densities == {0, 3, 8}
Tiles == { <<120, 120>>, <<60, 80>>, <<0, 0>> }
Directions == {0, 45}
CallerIds == { Null, Concat("my-fill-", 1) }

MaxDirect == 1      \* most patterns built by direct calls in one document

createDirectionalScribblePattern(id, color, density, width, height, direction, r) ==
    /\ ret = NoCall
    /\ Len(defs) < MaxDirect
    /\ defs' = Append(defs, DirectionalPattern(ScribbleId(id, r), color, density,
                                               width, height, direction))
    /\ body' = BodyAfterTones(body)
    /\ ret' = [op |-> "createDirectionalScribblePattern", id |-> id, color |-> color,
               density |-> density, width |-> width, height |-> height,
               direction |-> direction, threw |-> FALSE,
               value |-> Url(ScribbleId(id, r))]
    /\ UNCHANGED <<bodyColor, graph, pie, tip>>

createOilPaintPattern(id, color, draws) ==
    /\ ret = NoCall
    /\ defs' = Append(defs, OilPaintPattern(OilPaintId(id, draws.id), color, draws))
    /\ body' = BodyAfterTones(body)
    /\ ret' = [op |-> "createOilPaintPattern", id |-> id, color |-> color,
               threw |-> FALSE, value |-> Url(OilPaintId(id, draws.id))]
    /\ UNCHANGED <<bodyColor, graph, pie, tip>>

(***************************************************************************)
(* The pattern-set builders.                                               *)
(***************************************************************************)
directions == <<0, 45, 90, 135, 30, 60, 120, 150>>

\* const density = 6 + Math.floor(Math.random() * 5)
SetDensity(r) == 6 + ((5 * r) \div RandDen)

\* the index clamped to the list instead of wrapped
SetDirectionClamped(index) == directions[Min2(index, Len(directions) - 1) + 1]

\* directions[index % directions.length]
SetDirection(index) == directions[(index % Len(directions)) + 1]

\* `scribble-pattern-${index}`
ScribbleSetId(index) == Concat("scribble-pattern-", index)

\* `oil-paint-${index}`
OilPaintSetId(index) == Concat("oil-paint-", index)

\* the patterns colors.map builds, index = k - 1
ScribbleSetPatterns(colors, draws) ==
    [k \in 1 .. Len(colors) |->
        DirectionalPattern(ScribbleSetId(k - 1), colors[k], SetDensity(draws[k]),
                           DefaultTile, DefaultTile, SetDirection(k - 1))]

OilPaintSetPatterns(colors, draws) ==
    [k \in 1 .. Len(colors) |->
        OilPaintPattern(OilPaintSetId(k - 1), colors[k], OilDrawsOf(draws[k]))]

\* the references a builder returns, one per pattern it built
PatternRefs(patterns) == [k \in 1 .. Len(patterns) |-> Url(patterns[k].id)]

ColorArrays == UNION { [1 .. k -> Palette] : k \in 0 .. MaxColors }

MaxIndex == 8       \* largest index of a colour in a long colour array

\* colour arrays longer than the list of directions
LongColorArrays ==
    { [k \in 1 .. n |-> IF (k + shift) % 3 = 0 THEN Hex(255, 99, 132)
                        ELSE Hex(54, 162, 235)] :
        n \in {MaxIndex, MaxIndex + 1}, shift \in 0 .. 2 }

createScribblePatternSet(colors, draws) ==
    /\ ret = NoCall
    /\ defs' = defs \o ScribbleSetPatterns(colors, draws)
    /\ body' = IF colors = <<>> THEN body ELSE BodyAfterTones(body)
    /\ ret' = [op |-> "createScribblePatternSet", colors |-> colors, threw |-> FALSE,
               value |-> PatternRefs(ScribbleSetPatterns(colors, draws))]
    /\ UNCHANGED <<bodyColor, graph, pie, tip>>

createOilPaintPatternSet(colors, draws) ==
    /\ ret = NoCall
    /\ defs' = defs \o OilPaintSetPatterns(colors, draws)
    /\ body' = IF colors = <<>> THEN body ELSE BodyAfterTones(body)
    /\ ret' = [op |-> "createOilPaintPatternSet", colors |-> colors, threw |-> FALSE,
               value |-> PatternRefs(OilPaintSetPatterns(colors, draws))]
    /\ UNCHANGED <<bodyColor, graph, pie, tip>>

(***************************************************************************)
(* createPieChart(selector, data, config): the colours of the entries, the *)
(* fill patterns and the fills of the arcs and of the legend swatches.     *)
(***************************************************************************)
schemeCategory10 ==
    << Hex(31, 119, 180), Hex(255, 127, 14), Hex(44, 160, 44), Hex(214, 39, 40),
       Hex(148, 103, 189), Hex(140, 86, 75), Hex(227, 119, 194), Hex(127, 127, 127),
       Hex(188, 189, 34), Hex(23, 190, 207) >>

\* d.color || color(i): the ordinal scale hands its colours out in the order
\* in which it is first asked, so the n-th entry without a colour gets the n-th
ProcessedColors(data) ==
    [i \in 1 .. Len(data) |->
        IF data[i] # Null THEN data[i]
        ELSE schemeCategory10[
                (Cardinality({k \in 1 .. i - 1 : data[k] = Null})
                    % Len(schemeCategory10)) + 1]]

\* the patterns of lines 398-410
PieFillPatterns(colors, useScribbleFill, fillStyle, draws) ==
    IF ~useScribbleFill THEN <<>>
    ELSE IF fillStyle = "oilpaint" THEN OilPaintSetPatterns(colors, draws)
    ELSE ScribbleSetPatterns(colors, draws)

\* every slice painted with its plain colour
PieFillPlain(colors, useScribbleFill, fillPatterns, i) == colors[i + 1]

\* useScribbleFill && fillPatterns.length > 0 ? fillPatterns[i % fillPatterns.length] : color
PieFill(colors, useScribbleFill, fillPatterns, i) ==
    IF useScribbleFill /\ Len(fillPatterns) > 0
    THEN fillPatterns[(i % Len(fillPatterns)) + 1]
    ELSE colors[i + 1]

\* one draw per pattern built
PieDraws(data, useScribbleFill) ==
    IF useScribbleFill THEN [1 .. Len(data) -> Rand] ELSE {<<>>}

(***************************************************************************)
(* The stroke generators generateScribblePath and generateBrushStroke.     *)
(* A coordinate is a JavaScript number: a rational [n, d] with d > 0, or a *)
(* value that is not finite, kept with d = 0 (NaN: n = 0, +-Infinity:      *)
(* n = +-1).  The segments are parallel to an axis or of length 0, so that *)
(* Math.sqrt(dx * dx + dy * dy) is exact.                                  *)
(***************************************************************************)
NaN == [n |-> 0, d |-> 0]
Infinity(sg) == [n |-> sg, d |-> 0]
isFinite(v) == v.d # 0

JsAdd(a, b) ==
    IF isFinite(a) /\ isFinite(b) THEN QAdd(a, b)
    ELSE IF a = NaN \/ b = NaN THEN NaN
    ELSE IF ~isFinite(a) /\ ~isFinite(b) /\ a # b THEN NaN
    ELSE IF isFinite(a) THEN b ELSE a

JsMul(a, b) ==
    IF isFinite(a) /\ isFinite(b) THEN QMul(a, b)
    ELSE IF a = NaN \/ b = NaN \/ a.n = 0 \/ b.n = 0 THEN NaN
    ELSE Infinity(Sign(a.n) * Sign(b.n))

\* a / b for finite a and b: 0 / 0 is NaN, x / 0 is +-Infinity
JsDiv(a, b) ==
    IF b.n # 0 THEN QDiv(a, b)
    ELSE IF a.n = 0 THEN NaN ELSE Infinity(Sign(a.n))

QAbs(a) == [n |-> Abs(a.n), d |-> a.d]

\* Math.sqrt(dx * dx + dy * dy) where dx = 0 or dy = 0
SegmentLength(dx, dy) == QAdd(QAbs(dx), QAbs(dy))

\* Math.floor(a) for a >= 0
Floor(a) == a.n \div a.d

\* The points both generators build: start, numPoints - 1 wobbled points and
\* end, where numPoints = Math.max(lo, Math.min(hi, Math.floor(length / step)))
\* and wobbleAmount = base + Math.random() * base.  draws[1] is the draw of
\* wobbleAmount, draws[2i] and draws[2i + 1] those of the i-th point.
WobbledPoints(start, end, lo, hi, step, base, draws) ==
    LET dx == QSub(end.x, start.x)
        dy == QSub(end.y, start.y)
        length == SegmentLength(dx, dy)
        numPoints == Max2(lo, Min2(hi, Floor(QDiv(length, QInt(step)))))
        wobbleAmount == QAdd(QInt(base), QMul(RandQ(draws[1]), QInt(base)))
        perpX == JsDiv(QNeg(dy), length)
        perpY == JsDiv(dx, length)
        alongX == JsDiv(dx, length)
        alongY == JsDiv(dy, length)
        inner(i) ==
            LET t == Q(i, numPoints)
                baseX == QAdd(start.x, QMul(dx, t))
                baseY == QAdd(start.y, QMul(dy, t))
                wobble == QMul(Centred(draws[2 * i]), wobbleAmount)
                speedWobble == QMul(QMul(Centred(draws[2 * i + 1]), wobbleAmount),
                                    Q(3, 10))
            IN  Pt(JsAdd(JsAdd(baseX, JsMul(perpX, wobble)), JsMul(alongX, speedWobble)),
                   JsAdd(JsAdd(baseY, JsMul(perpY, wobble)), JsMul(alongY, speedWobble)))
    IN  <<start>> \o [i \in 1 .. numPoints - 1 |-> inner(i)] \o <<end>>

ScribbleMinPoints == 10
ScribbleMaxPoints == 30
ScribbleStep == 10
ScribbleWobble == 2

BrushMinPoints == 8
BrushMaxPoints == 20
BrushStep == 15
BrushWobble == 3

\* the number of Math.random() calls of a generator on a segment
WobbleDraws(start, end, lo, hi, step) ==
    LET length == SegmentLength(QSub(end.x, start.x), QSub(end.y, start.y))
    IN  2 * Max2(lo, Min2(hi, Floor(QDiv(length, QInt(step))))) - 1

ScribblePathPoints(start, end, draws) ==
    WobbledPoints(start, end, ScribbleMinPoints, ScribbleMaxPoints, ScribbleStep,
                  ScribbleWobble, draws)

BrushStrokePoints(start, end, draws) ==
    WobbledPoints(start, end, BrushMinPoints, BrushMaxPoints, BrushStep,
                  BrushWobble, draws)

QPt(a, b) == Pt(QInt(a), QInt(b))

\* segments handed to the generators: along the tile, across it, and of length 0
Segments ==
    { <<QPt(0, 60), QPt(120, 60)>>, <<QPt(60, 0), QPt(60, 120)>>,
      <<QPt(90, 10), QPt(10, 10)>>, <<QPt(0, 0), QPt(0, 0)>>,
      <<QPt(60, 60), QPt(60, 60)>> }

generateScribblePath(start, end, draws) ==
    /\ ret = NoCall
    /\ ret' = [op |-> "generateScribblePath", start |-> start, end |-> end,
               threw |-> FALSE, curve |-> "curveBasis",
               points |-> ScribblePathPoints(start, end, draws)]
    /\ UNCHANGED <<body, defs, bodyColor, graph, pie, tip>>

generateBrushStroke(start, end, draws) ==
    /\ ret = NoCall
    /\ ret' = [op |-> "generateBrushStroke", start |-> start, end |-> end,
               threw |-> FALSE, curve |-> "curveBasis",
               points |-> BrushStrokePoints(start, end, draws)]
    /\ UNCHANGED <<body, defs, bodyColor, graph, pie, tip>>

(***************************************************************************)
(* XkcdTooltip.js: the tooltip class.  A title or an item text is a string *)
(* and an item is [color, text].  The tooltip's <svg> has the children     *)
(* background rect, title text and one <svg> per item, in that order.      *)
(* Lengths are in pixels, as rationals.                                    *)
(***************************************************************************)
safetyBuffer == 10

\* this.filter = !unxkcdify ? 'url(#xkcdify)' : null
TooltipFilter(unxkcdify) == IF ~unxkcdify THEN "url(#xkcdify)" ELSE "null"

\* this.items.reduce((pre, cur) => (pre > cur.text.length ? pre : cur.text.length), 0)
RECURSIVE maxItemLength(_)
maxItemLength(items) ==
    IF items = <<>> THEN 0
    ELSE LET pre == maxItemLength(SubSeq(items, 1, Len(items) - 1))
             cur == items[Len(items)]
         IN  IF pre > Len(cur.text) THEN pre ELSE Len(cur.text)

\* maxLength * 7.4 + 25
getBackgroundWidth(this) ==
    Q(74 * Max2(maxItemLength(this.items), Len(this.title)) + 250, 10)

\* rows * 20 + 10 with rows = this.items.length + 1
getBackgroundHeight(this) == QInt((Len(this.items) + 1) * 20 + 10)

\* the origin with no edge detection: always to the right of the cursor
getUpLeftXNoFlip(this) == QAdd(QInt(this.position.x), QInt(10))

getUpLeftX(this) ==
    LET tooltipWidth == QAdd(getBackgroundWidth(this), QInt(20))
        mouseX == QInt(this.position.x)
    IN  IF this.position.type = "auto"
        THEN IF QLt(QInt(this.chartWidth),
                    QAdd(QAdd(mouseX, tooltipWidth), QInt(safetyBuffer)))
             THEN QSub(QSub(mouseX, tooltipWidth), QInt(10))
             ELSE QAdd(mouseX, QInt(10))
        ELSE IF this.position.type \in {"upRight", "downRight"}
        THEN mouseX
        ELSE QSub(mouseX, tooltipWidth)

getUpLeftY(this) ==
    LET tooltipHeight == QAdd(getBackgroundHeight(this), QInt(20))
        mouseY == QInt(this.position.y)
    IN  IF this.position.type = "auto"
        THEN IF QLt(QInt(this.chartHeight),
                    QAdd(QAdd(mouseY, tooltipHeight), QInt(safetyBuffer)))
             THEN QSub(QSub(mouseY, tooltipHeight), QInt(10))
             ELSE IF QLt(QSub(mouseY, QInt(safetyBuffer)), QInt(0))
             THEN QInt(safetyBuffer)
             ELSE QAdd(mouseY, QInt(10))
        ELSE IF this.position.type \in {"downLeft", "downRight"}
        THEN mouseY
        ELSE QSub(mouseY, tooltipHeight)

\* _generateTipItem(item, i): the <svg> of the item, its colour square at row i
generateTipItem(filter, item, i) ==
    [tag |-> "svg", item |-> item, y |-> 37 + 20 * i, filter |-> filter]

generateTipItems(filter, items) ==
    [k \in 1 .. Len(items) |-> generateTipItem(filter, items[k], k - 1)]

\* new XkcdTooltip({parent, title, items, position, unxkcdify, chartWidth, chartHeight})
XkcdTooltip(title, items, position, unxkcdify, chartWidth, chartHeight) ==
    LET this == [title |-> title, items |-> items, position |-> position,
                 chartWidth |-> chartWidth, chartHeight |-> chartHeight]
        filter == TooltipFilter(unxkcdify)
        tipItems == generateTipItems(filter, items)
    IN  [created |-> TRUE, attached |-> TRUE, visibility |-> "hidden",
         title |-> title, items |-> items, position |-> position,
         filter |-> filter, chartWidth |-> chartWidth, chartHeight |-> chartHeight,
         x |-> getUpLeftX(this), y |-> getUpLeftY(this),
         tipBackground |-> [filter |-> filter,
                            width |-> [from |-> "text length",
                                       px |-> getBackgroundWidth(this)],
                            height |-> getBackgroundHeight(this)],
         tipItems |-> tipItems,
         children |-> <<[tag |-> "rect"], [tag |-> "text"]>> \o tipItems]

show(this) == [this EXCEPT !.visibility = "visible"]

\* a hide that leaves the visibility as it is
hideNothing(this) == this

hide(this) == [this EXCEPT !.visibility = "hidden"]

\* the old items left in place
removeNone(children, tipItems) == children

\* this.tipItems.forEach((g) => g.svg.remove())
RECURSIVE removeItems(_, _)
removeItems(children, tipItems) ==
    IF tipItems = <<>> THEN children
    ELSE removeItems(removeChild(children, Head(tipItems)), Tail(tipItems))

\* update({title, items, position}); options holds the keys the caller gives.
\* An empty title is skipped, the items are generated again when they differ
\* from the current ones (the background then takes the width the host
\* measures), and the origin is computed again when a position is given.
update(this, options) ==
    LET titled == IF /\ "title" \in DOMAIN options
                     /\ options.title # "" /\ options.title # this.title
                  THEN [this EXCEPT !.title = options.title] ELSE this
        filled == IF "items" \in DOMAIN options /\ options.items # titled.items
                  THEN LET tipItems == generateTipItems(titled.filter, options.items)
                           now == [titled EXCEPT !.items = options.items]
                       IN  [now EXCEPT
                              !.children = removeItems(@, titled.tipItems) \o tipItems,
                              !.tipItems = tipItems,
                              !.tipBackground =
                                  [@ EXCEPT !.width = [from |-> "getBBox"],
                                            !.height = getBackgroundHeight(now)]]
                  ELSE titled
    IN  IF "position" \in DOMAIN options
        THEN LET moved == [filled EXCEPT !.position = options.position]
             IN  [moved EXCEPT !.x = getUpLeftX(moved), !.y = getUpLeftY(moved)]
        ELSE filled

Item(color, text) == [color |-> color, text |-> text]

TipTitles == {"Q1", "A rather long title"}

TipItemArrays ==
    { <<>>,
      <<Item("red", "a: 1")>>,
      <<Item("red", "a: 1"), Item("blue", "b: 22")>>,
      <<Item("blue", "b: 22"), Item("red", "a: 1")>>,
      <<Item("red", "a much longer item text: 1234.5"), Item("blue", "b: 22"),
        Item("green", "c: 3")>> }

TipChartWidth == 300
TipChartHeight == 200

TipPositions ==
    [type : {"auto", "upRight", "downLeft"},
     x : {0, 150, TipChartWidth}, y : {5, TipChartHeight}]

UpdateOptions ==
    {[position |-> p] : p \in TipPositions}
    \cup {[items |-> i] : i \in TipItemArrays}
    \cup {[title |-> t] : t \in TipTitles \cup {""}}
    \cup {[title |-> t, items |-> i, position |-> p] :
            t \in TipTitles, i \in TipItemArrays,
            p \in {q \in TipPositions : q.type = "auto"}}

\* a caller constructing a tooltip and calling its methods
construct(title, items, position, unxkcdify) ==
    /\ ret = NoCall
    /\ ~tip.created
    /\ tip' = XkcdTooltip(title, items, position, unxkcdify,
                          TipChartWidth, TipChartHeight)
    /\ ret' = [op |-> "new XkcdTooltip"]
    /\ UNCHANGED <<body, defs, bodyColor, graph, pie>>

callShow ==
    /\ tip.created
    /\ tip' = show(tip)
    /\ UNCHANGED <<body, defs, bodyColor, graph, pie, ret>>

callHide ==
    /\ tip.created
    /\ tip' = hide(tip)
    /\ UNCHANGED <<body, defs, bodyColor, graph, pie, ret>>

callUpdate(options) ==
    /\ tip.created
    /\ tip' = update(tip, options)
    /\ UNCHANGED <<body, defs, bodyColor, graph, pie, ret>>

(***************************************************************************)
(* graph.js: createGraph(selector, data, config) and the hover handlers it *)
(* installs.  A dataset is given by the path string the d3 line generator  *)
(* makes of it: a polyline through the data points, whose vertices are the *)
(* positions (x(label), y(value)) of the data points.  Jitter amounts are  *)
(* in tenths, as for addHandDrawnEffect.                                   *)
(***************************************************************************)
defaultConfig ==
    [width |-> 960, height |-> 500, jitter |-> 19, pointRadius |-> 4,
     handDrawnEffect |-> TRUE, handDrawnPoints |-> 100,
     handDrawnJitter |-> 20, legendBorder |-> FALSE]

\* const settings = { ...defaultConfig, ...config }
Settings(config) ==
    [k \in DOMAIN defaultConfig |->
        IF k \in DOMAIN config THEN config[k] ELSE defaultConfig[k]]

Configs ==
    { [handDrawnJitter |-> 20],
      [jitter |-> 0, handDrawnPoints |-> 2],
      [jitter |-> 50, handDrawnPoints |-> 2, handDrawnJitter |-> 0,
       legendBorder |-> TRUE],
      [handDrawnEffect |-> TRUE, handDrawnPoints |-> MaxN,
       handDrawnJitter |-> 19, legendBorder |-> TRUE],
      [handDrawnEffect |-> FALSE],
      [jitter |-> 50, handDrawnEffect |-> FALSE, handDrawnPoints |-> 2,
       handDrawnJitter |-> 19, legendBorder |-> TRUE] }

\* data.datasets, each dataset by its path string
Datasets == { <<HLine>>, <<Bend, HLine>>, <<ZeroPath>> }

\* data.labels: one label per data point of the longest dataset
RECURSIVE LabelCount(_)
LabelCount(datasets) ==
    IF datasets = <<>> THEN 0
    ELSE Max2(Len(Head(datasets)), LabelCount(Tail(datasets)))

\* the filter attribute of the legend: handDrawnEffect ? 'url(#xkcdify)' : null
LegendFilter(handDrawnEffect) ==
    IF handDrawnEffect THEN "url(#xkcdify)" ELSE "null"

\* (Math.random() - 0.5) * (handDrawnJitter / 2)
DotOffset(r, j10) == QMul(Centred(r), Q(j10, 20))

\* (Math.random() - 0.5) * 2
LegendOffset(r) == QMul(Centred(r), QInt(2))

\* Math.random() calls of one pass of the datasets loop with the effect on:
\* addHandDrawnEffect, cx and cy of every dot, x and y of the legend rect and
\* of the legend text
SeriesRandoms(p, n) == 2 * (n + 1) + 2 * Len(p) + 4

RECURSIVE RandomsBefore(_, _, _)
RandomsBefore(datasets, index, n) ==
    IF index = 1 THEN 0
    ELSE RandomsBefore(datasets, index - 1, n)
            + SeriesRandoms(datasets[index - 1], n)

\* Math.random() calls of one createGraph call
GraphRandoms(datasets, settings) ==
    IF settings.handDrawnEffect
    THEN RandomsBefore(datasets, Len(datasets) + 1, settings.handDrawnPoints)
    ELSE 0

\* one pass of data.datasets.forEach: the path, the dots and the legend entry
Series(p, index, settings, draws, base) ==
    LET handDrawnEffect == settings.handDrawnEffect
        n == settings.handDrawnPoints
        j10 == settings.handDrawnJitter
        dots == base + 2 * (n + 1)
        legend == dots + 2 * Len(p)
        off(k) == IF handDrawnEffect THEN LegendOffset(draws[legend + k])
                  ELSE QInt(0)
    IN  [pathString |-> p,
         d |-> IF handDrawnEffect
               THEN [from |-> "addHandDrawnEffect", numPoints |-> n,
                     points |-> SampledPoints(p, j10, n,
                                   SubSeq(draws, base + 1, dots), "point")]
               ELSE [from |-> "pathString", numPoints |-> 0, points |-> <<>>],
         dots |-> [i \in 1 .. Len(p) |->
                     IF handDrawnEffect
                     THEN Pt(QAdd(QInt(p[i].x), DotOffset(draws[dots + i], j10)),
                             QAdd(QInt(p[i].y),
                                  DotOffset(draws[dots + Len(p) + i], j10)))
                     ELSE Pt(QInt(p[i].x), QInt(p[i].y))],
         legendRect |-> [x |-> off(1),
                         y |-> QAdd(QInt((index - 1) * 20), off(2)),
                         filter |-> LegendFilter(handDrawnEffect)],
         legendText |-> [x |-> QAdd(QInt(15), off(3)),
                         y |-> QAdd(QInt((index - 1) * 20 + 8), off(4))]]

\* the drawing createGraph leaves in the container
Graph(datasets, config, draws) ==
    LET settings == Settings(config)
    IN  [drawn |-> TRUE,
         settings |-> settings,
         labels |-> LabelCount(datasets),
         filters |-> IF settings.handDrawnEffect THEN {"xkcdify"} ELSE {},
         legendBorder |-> IF settings.legendBorder
                          THEN <<LegendFilter(settings.handDrawnEffect)>>
                          ELSE <<>>,
         series |-> [k \in 1 .. Len(datasets) |->
                       Series(datasets[k], k, settings, draws,
                          RandomsBefore(datasets, k, settings.handDrawnPoints))],
         randoms |-> GraphRandoms(datasets, settings),
         dotStyle |-> [k \in 1 .. Len(datasets) |->
                     [i \in 1 .. Len(datasets[k]) |->
                        [r |-> QInt(settings.pointRadius), stroke |-> "unset"]]],
         hoverLine |-> [opacity |-> 0, at |-> 0],
         tooltip |-> NoTooltip,
         constructed |-> 0,
         cleaned |-> FALSE]

\* the temporary svg of each addHandDrawnEffect call is appended and removed
RECURSIVE MeasureAll(_, _)
MeasureAll(children, calls) ==
    IF calls = 0 THEN children
    ELSE MeasureAll(removeChild(appendChild(children, "svg"), "svg"), calls - 1)

createGraph(datasets, config, draws) ==
    /\ ret = NoCall
    /\ graph' = Graph(datasets, config, draws)
    /\ body' = IF Settings(config).handDrawnEffect
               THEN MeasureAll(body, Len(datasets)) ELSE body
    /\ ret' = [op |-> "createGraph"]
    /\ UNCHANGED <<defs, bodyColor, pie, tip>>

(***************************************************************************)
(* The hover handlers of the graph and the cleanup function it returns.    *)
(***************************************************************************)
\* the option left out of the constructor call: undefined
UnxkcdifyUnset(handDrawnEffect) == FALSE

\* unxkcdify: !handDrawnEffect
Unxkcdify(handDrawnEffect) == ~handDrawnEffect

\* a tooltip made again whenever the current one is hidden
TooltipHidden(tooltip) == ~tooltip.created \/ tooltip.visibility = "hidden"

\* if (!tooltip)
NoTooltipYet(tooltip) == ~tooltip.created

\* data.labels
GraphLabels == <<"Q1", "Q2", "Q3">>

\* `${dataset.label}: ${dataset.data[index]}`, the value being the one the y
\* scale maps to the ordinate of the vertex
GraphItemText(p, k, index) ==
    "s" \o ToString(k) \o ": "
        \o (IF index <= Len(p) THEN ToString(p[index].y) ELSE "undefined")

\* data.datasets.map(dataset => ({color: ..., text: ...}))
GraphTooltipItems(series, index) ==
    [k \in 1 .. Len(series) |->
        Item([series |-> k], GraphItemText(series[k].pathString, k, index))]

\* mouseX, mouseY: the pointer relative to the chart
MousePositions == {Pt(0, 0), Pt(40, 30), Pt(955, 495)}

AutoPosition(position) == [type |-> "auto", x |-> position.x, y |-> position.y]

mouseover(index, position) ==
    LET items == GraphTooltipItems(graph.series, index)
        make == NoTooltipYet(graph.tooltip)
    IN  /\ graph.drawn
        /\ graph' = [graph EXCEPT
              !.dotStyle = [k \in DOMAIN @ |->
                          [i \in DOMAIN @[k] |->
                              IF i = index
                              THEN [r |-> QMul(QInt(graph.settings.pointRadius), Q(3, 2)),
                                    stroke |-> "#000"]
                              ELSE @[k][i]]],
              !.tooltip =
                  IF make
                  THEN show(XkcdTooltip(GraphLabels[index], items,
                                AutoPosition(position),
                                Unxkcdify(graph.settings.handDrawnEffect),
                                graph.settings.width, graph.settings.height))
                  ELSE show(update(@, [title |-> GraphLabels[index],
                                       items |-> items,
                                       position |-> AutoPosition(position)])),
              !.constructed = IF make THEN @ + 1 ELSE @,
              !.hoverLine = [opacity |-> 1, at |-> index]]
        /\ UNCHANGED <<body, defs, bodyColor, pie, tip, ret>>

mousemove(position) ==
    /\ graph.drawn
    /\ graph' = [graph EXCEPT
          !.tooltip = IF graph.tooltip.created
                      THEN update(@, [position |-> AutoPosition(position)])
                      ELSE @]
    /\ UNCHANGED <<body, defs, bodyColor, pie, tip, ret>>

mouseout ==
    /\ graph.drawn
    /\ graph' = [graph EXCEPT
          !.tooltip = IF graph.tooltip.created THEN hide(@) ELSE @,
          !.dotStyle = [k \in DOMAIN @ |->
                      [i \in DOMAIN @[k] |->
                          [r |-> QInt(graph.settings.pointRadius), stroke |-> "none"]]],
          !.hoverLine = [@ EXCEPT !.opacity = 0]]
    /\ UNCHANGED <<body, defs, bodyColor, pie, tip, ret>>

\* the function createGraph returns: if (tooltip) tooltip.svg.remove()
cleanup ==
    /\ graph.drawn
    /\ graph' = [graph EXCEPT
          !.tooltip = IF graph.tooltip.created
                      THEN [@ EXCEPT !.attached = FALSE] ELSE @,
          !.cleaned = TRUE]
    /\ UNCHANGED <<body, defs, bodyColor, pie, tip, ret>>

(***************************************************************************)
(* createPieChart(selector, data, config), its hover handlers and the      *)
(* cleanup function it returns.  An entry of data is given by its colour   *)
(* (Null for none); entry i has the label PieLabel(i), the value            *)
(* PieValue(i) and the slice outline ArcOutline(i), which stands for the   *)
(* path string the d3 arc generator makes of it.                           *)
(***************************************************************************)
pieDefaultConfig ==
    [width |-> 600, height |-> 400, handDrawnEffect |-> TRUE,
     handDrawnJitter |-> 20, legendBorder |-> TRUE,
     useScribbleFill |-> TRUE, fillStyle |-> "directional"]

\* const settings = { ...defaultConfig, ...config }
PieSettings(config) ==
    [k \in DOMAIN pieDefaultConfig |->
        IF k \in DOMAIN config THEN config[k] ELSE pieDefaultConfig[k]]

PieLabel(i) == "entry " \o ToString(i)
PieValue(i) == 2 * i - 1
ArcOutline(i) == IF i % 2 = 1 THEN Square ELSE Slab

\* d3.sum(processedData, d => d.value)
RECURSIVE PieTotal(_)
PieTotal(n) == IF n = 0 THEN 0 ELSE PieTotal(n - 1) + PieValue(n)

\* valueFormat(d.data.value): d3.format('.1f') of a whole number
ValueText(v) == ToString(v) \o ".0"

\* ((value / total) * 100).toFixed(1)
PercentText(v, total) ==
    LET tenths == (2000 * v + total) \div (2 * total)
    IN  ToString(tenths \div 10) \o "." \o ToString(tenths % 10)

\* the legend is sized by the labels: Math.min(250, Math.max(100, ...))
LegendWidth(maxLabelLength) == Min2(250, Max2(100, maxLabelLength * 6 + 40 + 25))

\* the rectangle handed to createHandDrawnRect for the legend border
LegendBorderRect(n) ==
    LET legendItemHeight == IF n > 6 THEN 16 ELSE 20
        legendTotalHeight == n * legendItemHeight + 10
    IN  [x |-> -10, y |-> -8,
         width |-> LegendWidth(Len(PieLabel(n))) + 10 + 15,
         height |-> legendTotalHeight + 8 + 8]

\* Math.random() calls of createPieChart after the fill patterns are built:
\* handDrawnArc for every arc, createHandDrawnRect for the legend border, and
\* x and y of the rect and of the text of every legend entry
RECURSIVE ArcRandomsBefore(_)
ArcRandomsBefore(i) ==
    IF i = 1 THEN 0
    ELSE ArcRandomsBefore(i - 1)
            + 2 * (ArcNumPoints(getTotalLength(ArcOutline(i - 1))) + 1)

BorderRandoms(settings) ==
    IF settings.legendBorder THEN 4 * (RectSidePoints + 1) ELSE 0

PieRandoms(n, settings) ==
    (IF settings.handDrawnEffect THEN ArcRandomsBefore(n + 1) ELSE 0)
        + BorderRandoms(settings)
        + (IF settings.handDrawnEffect THEN 4 * n ELSE 0)

\* the d attribute of arc i
ArcPath(i, settings, strokes) ==
    IF settings.handDrawnEffect
    THEN [from |-> "handDrawnArc",
          points |-> ArcPoints(ArcOutline(i), settings.handDrawnJitter,
                        SubSeq(strokes, ArcRandomsBefore(i) + 1,
                               ArcRandomsBefore(i + 1)))]
    ELSE [from |-> "arc", points |-> <<>>]

\* the legend background of lines 466-490: its outline always comes from
\* createHandDrawnRect with handDrawnJitter.  Without data the legend width
\* is NaN and so is the outline.
LegendBorder(n, settings, strokes, base) ==
    IF ~settings.legendBorder THEN <<>>
    ELSE << [jitter |-> settings.handDrawnJitter,
             rect |-> LegendBorderRect(n),
             points |-> IF n = 0 THEN <<>>
                        ELSE ClosePath(RectEdgePoints(LegendBorderRect(n),
                                 settings.handDrawnJitter,
                                 SubSeq(strokes, base + 1,
                                        base + BorderRandoms(settings)))),
             filter |-> LegendFilter(settings.handDrawnEffect)] >>

\* processedData.forEach: the swatch and the text of legend entry i
LegendEntry(i, fill, settings, strokes, base) ==
    LET off(k) == IF settings.handDrawnEffect
                  THEN LegendOffset(strokes[base + 4 * (i - 1) + k]) ELSE QInt(0)
    IN  [rect |-> [x |-> off(1), y |-> off(2), fill |-> fill,
                   filter |-> LegendFilter(settings.handDrawnEffect)],
         text |-> [x |-> QAdd(QInt(15), off(3)), y |-> QAdd(QInt(8), off(4)),
                   label |-> PieLabel(i)]]

\* the drawing createPieChart leaves in the container
Pie(data, config, fillPatterns, strokes) ==
    LET settings == PieSettings(config)
        colors == ProcessedColors(data)
        n == Len(data)
        arcs == IF settings.handDrawnEffect THEN ArcRandomsBefore(n + 1) ELSE 0
        fill(i) == PieFill(colors, settings.useScribbleFill, fillPatterns, i - 1)
    IN  [drawn |-> TRUE,
         data |-> data,
         settings |-> settings,
         colors |-> colors,
         filters |-> IF settings.handDrawnEffect THEN {"xkcdify"} ELSE {},
         fillPatterns |-> fillPatterns,
         arcs |-> [i \in 1 .. n |->
                     [label |-> PieLabel(i),
                      d |-> ArcPath(i, settings, strokes), fill |-> fill(i),
                      filter |-> LegendFilter(settings.handDrawnEffect),
                      transform |-> "unset"]],
         legendBorder |-> LegendBorder(n, settings, strokes, arcs),
         legend |-> [i \in 1 .. n |->
                       LegendEntry(i, fill(i), settings, strokes,
                                   arcs + BorderRandoms(settings))],
         randoms |-> PieRandoms(n, settings),
         tooltip |-> NoTooltip,
         constructed |-> 0,
         cleaned |-> FALSE]

\* draws: one value per fill pattern built; strokes: the values drawn afterwards
createPieChart(data, config, draws, strokes) ==
    LET settings == PieSettings(config)
        colors == ProcessedColors(data)
        built == PieFillPatterns(colors, settings.useScribbleFill,
                                 settings.fillStyle, draws)
        fillPatterns == PatternRefs(built)
        drawing == Pie(data, config, fillPatterns, strokes)
    IN  /\ ret = NoCall
        /\ Len(defs) + Len(built) <= MaxPatterns
        /\ defs' = defs \o built
        /\ body' = MeasureAll(IF built = <<>> THEN body ELSE BodyAfterTones(body),
                              IF settings.handDrawnEffect THEN Len(data) ELSE 0)
        /\ pie' = drawing
        /\ ret' = [op |-> "createPieChart", data |-> data, colors |-> colors,
                   useScribbleFill |-> settings.useScribbleFill,
                   fillStyle |-> settings.fillStyle,
                   threw |-> FALSE, fillPatterns |-> fillPatterns,
                   arcFills |-> [k \in 1 .. Len(colors) |-> drawing.arcs[k].fill],
                   legendFills |-> [k \in 1 .. Len(colors) |->
                                      drawing.legend[k].rect.fill]]
        /\ UNCHANGED <<bodyColor, graph, tip>>

\* [{color, text: `Value: ...`}, {color, text: `Percentage: ...%`}]
PieTooltipItems(i) ==
    << Item(pie.colors[i], "Value: " \o ValueText(PieValue(i))),
       Item(pie.colors[i],
            "Percentage: " \o PercentText(PieValue(i), PieTotal(Len(pie.arcs)))
                \o "%") >>

\* mouseX, mouseY: the pointer relative to the centre of the chart
PieMousePositions == {Pt(-40, 30), Pt(290, 190)}

pieMouseover(i, position) ==
    LET make == NoTooltipYet(pie.tooltip)
    IN  /\ pie.drawn
        /\ pie' = [pie EXCEPT
              !.arcs[i].transform = "pulled out",
              !.tooltip =
                  IF make
                  THEN show(XkcdTooltip(PieLabel(i), PieTooltipItems(i),
                                AutoPosition(position),
                                Unxkcdify(pie.settings.handDrawnEffect),
                                pie.settings.width, pie.settings.height))
                  ELSE show(update(@, [title |-> PieLabel(i),
                                       items |-> PieTooltipItems(i),
                                       position |-> AutoPosition(position)])),
              !.constructed = IF make THEN @ + 1 ELSE @]
        /\ UNCHANGED <<body, defs, bodyColor, graph, tip, ret>>

pieMousemove(position) ==
    /\ pie.drawn
    /\ pie' = [pie EXCEPT
          !.tooltip = IF pie.tooltip.created
                      THEN update(@, [position |-> AutoPosition(position)])
                      ELSE @]
    /\ UNCHANGED <<body, defs, bodyColor, graph, tip, ret>>

pieMouseout(i) ==
    /\ pie.drawn
    /\ pie' = [pie EXCEPT
          !.arcs[i].transform = "translate(0, 0)",
          !.tooltip = IF pie.tooltip.created THEN hide(@) ELSE @]
    /\ UNCHANGED <<body, defs, bodyColor, graph, tip, ret>>

\* a cleanup that empties the <defs> of the chart as well
pieCleanupDefs ==
    /\ pie.drawn
    /\ pie' = [pie EXCEPT
          !.tooltip = IF pie.tooltip.created
                      THEN [@ EXCEPT !.attached = FALSE] ELSE @,
          !.cleaned = TRUE]
    /\ defs' = <<>>
    /\ UNCHANGED <<body, bodyColor, graph, tip, ret>>

\* the function createPieChart returns: if (tooltip) tooltip.svg.remove()
pieCleanup ==
    /\ pie.drawn
    /\ pie' = [pie EXCEPT
          !.tooltip = IF pie.tooltip.created
                      THEN [@ EXCEPT !.attached = FALSE] ELSE @,
          !.cleaned = TRUE]
    /\ UNCHANGED <<body, defs, bodyColor, graph, tip, ret>>

\* The caller takes the result; nothing of the call is kept.
Return ==
    /\ ret # NoCall
    /\ ret' = NoCall
    /\ UNCHANGED <<body, defs, bodyColor, graph, pie, tip>>

Init ==
    /\ body = <<>>
    /\ defs = <<>>
    /\ bodyColor = Rgb(0, 0, 0)
    /\ graph = NoGraph
    /\ pie = NoPie
    /\ tip = NoTooltip
    /\ ret = NoCall

\* no call is in progress: the next operation may start
Idle == ret = NoCall

Next ==
    \/ Idle /\ \E p \in OpenPaths, j10 \in JitterAmounts, n \in 2 .. MaxN :
         \E draws \in Draws(2 * (n + 1)), outcome \in MeasureOutcomes(p) :
            addHandDrawnEffect(p, j10, n, draws, outcome)
    \/ Idle /\ \E p \in ArcPaths, j10 \in JitterAmounts :
         \E draws \in Draws(2 * (ArcNumPoints(getTotalLength(p)) + 1)) :
            handDrawnArc(p, j10, draws)
    \/ Idle /\ \E rc \in Rects, j10 \in JitterAmounts :
         \E draws \in Draws(4 * (RectSidePoints + 1)) :
            createHandDrawnRect(rc, j10, draws)
    \/ Idle /\ \E c \in Circles, j10 \in JitterAmounts :
         \E draws \in Draws(CirclePoints) :
            createHandDrawnCircle(c, j10, draws)
    \/ Return

Spec == Init /\ [][Next]_vars

(***************************************************************************)
(* adjustColor called on its own, for every colour string and delta.       *)
(***************************************************************************)
NextColor ==
    \/ Idle /\ \E c \in ColorStrings, bd \in BrightnessDeltas, sd \in SaturationDeltas :
            adjustColor(c, bd, sd)
    \/ Return

InitColor ==
    /\ body = <<>>
    /\ defs = <<>>
    /\ bodyColor \in BodyColors
    /\ graph = NoGraph
    /\ pie = NoPie
    /\ tip = NoTooltip
    /\ ret = NoCall

SpecColor == InitColor /\ [][NextColor]_vars

(***************************************************************************)
(* The pattern generators called on their own.                             *)
(***************************************************************************)
NextPattern ==
    \/ Idle /\ \E id \in CallerIds, color \in Palette, density \in Densities,
          tile \in Tiles, direction \in Directions, r \in Rand :
            createDirectionalScribblePattern(id, color, density, tile[1], tile[2],
                                             direction, r)
    \/ Idle /\ Len(defs) < MaxDirect
            /\ \E id \in CallerIds, color \in Palette, r \in Rand, d \in Rand :
                    createOilPaintPattern(id, color, [OilDrawsOf(r) EXCEPT !.dir = d])
    \/ Return

SpecPattern == Init /\ [][NextPattern]_vars

(***************************************************************************)
(* One createOilPaintPattern call in an empty <defs>, for every enumerated *)
(* draw of its blobs and strokes.                                          *)
(***************************************************************************)
NextOil ==
    \/ Idle /\ defs = <<>>
            /\ \E id \in CallerIds, color \in Palette, draws \in OilDraws :
                    createOilPaintPattern(id, color, draws)
    \/ Return

SpecOil == Init /\ [][NextOil]_vars

\* one graph per behaviour, then hover events on it
NextGraph ==
    \/ Idle /\ ~graph.drawn /\ \E datasets \in Datasets, config \in Configs :
         \E draws \in ChartDraws(GraphRandoms(datasets, Settings(config))) :
            createGraph(datasets, config, draws)
    \/ Idle /\ graph.drawn /\ \E index \in 1 .. graph.labels :
         \E position \in MousePositions : mouseover(index, position)
    \/ Idle /\ \E position \in MousePositions : mousemove(position)
    \/ Idle /\ mouseout
    \/ Idle /\ cleanup
    \/ Return

SpecGraph == Init /\ [][NextGraph]_vars

\* one tooltip per behaviour and any sequence of calls of its methods
NextTooltip ==
    \/ Idle /\ \E title \in TipTitles, items \in TipItemArrays :
         \E position \in TipPositions, unxkcdify \in BOOLEAN :
            construct(title, items, position, unxkcdify)
    \/ Idle /\ callShow
    \/ Idle /\ callHide
    \/ Idle /\ \E options \in UpdateOptions : callUpdate(options)
    \/ Return

SpecTooltip == Init /\ [][NextTooltip]_vars

\* one pie chart per behaviour, then hover events on it
PieData == { <<>>, <<Hex(255, 99, 132)>>, <<Null, Hex(54, 162, 235)>> }

PieChartConfigs ==
    { [fillStyle |-> "directional"],
      [fillStyle |-> "oilpaint", handDrawnJitter |-> 0],
      [useScribbleFill |-> FALSE, legendBorder |-> FALSE],
      [handDrawnEffect |-> FALSE],
      [handDrawnEffect |-> FALSE, useScribbleFill |-> FALSE,
       handDrawnJitter |-> 0],
      [handDrawnEffect |-> FALSE, legendBorder |-> FALSE,
       fillStyle |-> "oilpaint"] }

NextPie ==
    \/ Idle /\ ~pie.drawn /\ \E data \in PieData, config \in PieChartConfigs :
         \E draws \in PieDraws(data, PieSettings(config).useScribbleFill) :
            \E strokes \in ChartDraws(PieRandoms(Len(data), PieSettings(config))) :
                createPieChart(data, config, draws, strokes)
    \/ Idle /\ pie.drawn /\ \E i \in 1 .. Len(pie.arcs) :
         \E position \in PieMousePositions : pieMouseover(i, position)
    \/ Idle /\ \E position \in PieMousePositions : pieMousemove(position)
    \/ Idle /\ pie.drawn /\ \E i \in 1 .. Len(pie.arcs) : pieMouseout(i)
    \/ Idle /\ pieCleanup
    \/ Return

SpecPie == Init /\ [][NextPie]_vars

\* one chart per behaviour, a graph or a pie chart, then hover events on it
NextCharts ==
    \/ Idle /\ ~graph.drawn /\ ~pie.drawn
            /\ \E datasets \in Datasets, config \in Configs :
                 \E draws \in ChartDraws(GraphRandoms(datasets, Settings(config))) :
                    createGraph(datasets, config, draws)
    \/ Idle /\ ~graph.drawn /\ ~pie.drawn
            /\ \E data \in PieData, config \in PieChartConfigs :
                 \E draws \in PieDraws(data, PieSettings(config).useScribbleFill) :
                    \E strokes \in ChartDraws(PieRandoms(Len(data), PieSettings(config))) :
                        createPieChart(data, config, draws, strokes)
    \/ Idle /\ graph.drawn /\ \E index \in 1 .. graph.labels :
         \E position \in MousePositions : mouseover(index, position)
    \/ Idle /\ \E position \in MousePositions : mousemove(position)
    \/ Idle /\ mouseout
    \/ Idle /\ cleanup
    \/ Idle /\ pie.drawn /\ \E i \in 1 .. Len(pie.arcs) :
         \E position \in PieMousePositions : pieMouseover(i, position)
    \/ Idle /\ \E position \in PieMousePositions : pieMousemove(position)
    \/ Idle /\ pie.drawn /\ \E i \in 1 .. Len(pie.arcs) : pieMouseout(i)
    \/ Idle /\ pieCleanup
    \/ Return

SpecCharts == Init /\ [][NextCharts]_vars

(***************************************************************************)
(* Pattern sets built one after the other in one document.                 *)
(***************************************************************************)
NextFill ==
    \/ Idle /\ \E colors \in ColorArrays :
         /\ Len(defs) + Len(colors) <= MaxPatterns
         /\ \E draws \in [1 .. Len(colors) -> Rand] :
                createScribblePatternSet(colors, draws)
    \/ Idle /\ \E colors \in ColorArrays :
         /\ Len(defs) + Len(colors) <= MaxPatterns
         /\ \E draws \in [1 .. Len(colors) -> Rand] :
                createOilPaintPatternSet(colors, draws)
    \/ Return

SpecFill == Init /\ [][NextFill]_vars

(***************************************************************************)
(* The pattern-set builders on long colour arrays, in an empty <defs>.     *)
(***************************************************************************)
NextSet ==
    \/ Idle /\ defs = <<>> /\ \E colors \in LongColorArrays :
         \E draws \in Draws(Len(colors)) : createScribblePatternSet(colors, draws)
    \/ Idle /\ defs = <<>> /\ \E colors \in LongColorArrays :
         \E draws \in Draws(Len(colors)) : createOilPaintPatternSet(colors, draws)
    \/ Return

SpecSet == Init /\ [][NextSet]_vars


(***************************************************************************)
(* The stroke generators called on their own, and the jitter routine and   *)
(* the circle generator on collapsed geometry.                             *)
(***************************************************************************)
NextStroke ==
    \/ Idle /\ \E seg \in Segments :
         \E draws \in Draws(WobbleDraws(seg[1], seg[2], ScribbleMinPoints,
                                        ScribbleMaxPoints, ScribbleStep)) :
            generateScribblePath(seg[1], seg[2], draws)
    \/ Idle /\ \E seg \in Segments :
         \E draws \in Draws(WobbleDraws(seg[1], seg[2], BrushMinPoints,
                                        BrushMaxPoints, BrushStep)) :
            generateBrushStroke(seg[1], seg[2], draws)
    \/ Idle /\ \E j10 \in JitterAmounts, n \in 2 .. MaxN :
         \E draws \in Draws(2 * (n + 1)) :
            addHandDrawnEffect(ZeroPath, j10, n, draws, "point")
    \/ Idle /\ \E c \in { cc \in Circles : cc.radius = 0 }, j10 \in JitterAmounts :
         \E draws \in Draws(CirclePoints) :
            createHandDrawnCircle(c, j10, draws)
    \/ Return

SpecStroke == Init /\ [][NextStroke]_vars

(***************************************************************************)
(* Properties                                                              *)
(***************************************************************************)
Jittered == ret.op \in {"addHandDrawnEffect", "handDrawnArc"} /\ ~ret.threw

\* the exact sample of index i of the call in ret, coordinates times numPoints
ExactSample(i) ==
    IF Len(ret.path) = 0 THEN Pt(0, 0)
    ELSE getPointAtLength(ret.path, getTotalLength(ret.path) * i, ret.numPoints)

C2_JitterBound ==
    Jittered =>
        \A k \in 1 .. Len(ret.points) :
            LET dx == ret.points[k].x - 20 * RandDen * ExactSample(k - 1).x
                dy == ret.points[k].y - 20 * RandDen * ExactSample(k - 1).y
                half == ret.numPoints * RandDen * ret.jitter
            IN  /\ Abs(dx) <= half
                /\ Abs(dy) <= half
                /\ ret.jitter = 0 => (dx = 0 /\ dy = 0)
                /\ (ret.path = HLine /\ ret.jitter = 20) =>
                       Abs(ret.points[k].y) <= JUnit(ret.numPoints)

\* a call on the horizontal line with jitterAmount 2 in which one control point
\* is a full unit below the line and one has unequal x and y offsets
C2_Witness ==
    /\ ret.op = "addHandDrawnEffect" /\ ~ret.threw
    /\ ret.path = HLine /\ ret.jitter = 20
    /\ \E k \in 1 .. Len(ret.points) : ret.points[k].y = -JUnit(ret.numPoints)
    /\ \E k \in 1 .. Len(ret.points) :
          ret.points[k].x - 20 * RandDen * ExactSample(k - 1).x # ret.points[k].y

\* C3: the first and the last control point a closed shape generator hands to
\* the closed curve fit coincide.
C3_ClosedEndsCoincide ==
    ret.op \in {"handDrawnArc", "createHandDrawnRect", "createHandDrawnCircle"} =>
        ret.points[1] = ret.points[Len(ret.points)]

\* C10: no temporary element is left in document.body.
C10_BodyRestored == body = <<>>

\* C4: no two pattern elements of the document carry the same identifier.
C4_UniquePatternIds ==
    \A i, j \in 1 .. Len(defs) : i # j => defs[i].id # defs[j].id

\* the pattern elements of the document a reference designates
Designated(ref) == { k \in 1 .. Len(defs) : Url(defs[k].id) = ref }

\* C5: a pattern-set builder returns one reference per input colour, and the
\* i-th reference designates the pattern built from the i-th colour.
C5_OneRefPerColor ==
    ret.op \in {"createScribblePatternSet", "createOilPaintPatternSet"} =>
        /\ Len(ret.value) = Len(ret.colors)
        /\ \A i \in 1 .. Len(ret.colors) :
              /\ Designated(ret.value[i]) # {}
              /\ \A k \in Designated(ret.value[i]) :
                    defs[k].children[1].fill = ret.colors[i]

ChannelOk(v) == v \in 0 .. 255
Unit01(v) == QLe(QInt(0), v) /\ QLe(v, QInt(1))

AdjustedOk ==
    /\ ret.result.parsed
    /\ Unit01(ret.result.s)
    /\ Unit01(ret.result.l)
    /\ ret.result.value.form = "rgb"
    /\ \A i \in 1 .. 3 : ChannelOk(ret.result.value.rgb[i])

C8_RoundTrip ==
    (/\ ret.op = "adjustColor"
     /\ ret.brightnessDelta = 0 /\ ret.saturationDelta = 0
     /\ rgbMatch(getComputedColor(ret.color, bodyColor))) =>
        /\ ret.result.value.form = "rgb"
        /\ \A i \in 1 .. 3 :
              Abs(ret.result.value.rgb[i]
                  - getComputedColor(ret.color, bodyColor).rgb[i]) <= 1

C8_Witness ==
    /\ ret.op = "adjustColor" /\ ret.color = Hex(255, 206, 99)
    /\ ret.brightnessDelta = 0 /\ ret.saturationDelta = 0
    /\ ret.result.value = Rgb(255, 206, 99)

\* C9: for a string that is no colour adjustColor returns the string itself.
C9_InvalidReturnsOriginal ==
    (ret.op = "adjustColor" /\ ret.color.form = "bad") => ret.result.value = ret.color

\* the collapsed point of a degenerate call and the reach of its randomness,
\* both times the unit of the call's coordinates
CollapsedWithin(pt, cx, cy, reach) ==
    Abs(pt.x - cx) <= reach /\ Abs(pt.y - cy) <= reach

\* C11: on degenerate geometry (a zero-length path, a zero-radius circle, a
\* zero-length stroke segment) every coordinate a generator produces is a finite
\* number within the jitter or wobble bound of the collapsed point.
C11_DegenerateFinite ==
    /\ (ret.op = "addHandDrawnEffect" /\ ret.path = ZeroPath) =>
          \A k \in 1 .. Len(ret.points) :
              CollapsedWithin(ret.points[k],
                              JUnit(ret.numPoints) * ZeroPath[1].x,
                              JUnit(ret.numPoints) * ZeroPath[1].y,
                              ret.numPoints * RandDen * ret.jitter)
    /\ (ret.op = "createHandDrawnCircle" /\ ret.circle.radius = 0) =>
          \A k \in 1 .. Len(ret.points) :
              CollapsedWithin(ret.points[k], CUnit * ret.circle.cx,
                              CUnit * ret.circle.cy, 1000 * RandDen * ret.jitter)
    /\ (ret.op \in {"generateScribblePath", "generateBrushStroke"}
            /\ ret.start = ret.end) =>
          \A k \in 1 .. Len(ret.points) :
              LET reach == IF ret.op = "generateScribblePath"
                           THEN QInt(2 * ScribbleWobble) ELSE QInt(2 * BrushWobble)
                  pt == ret.points[k]
              IN  /\ isFinite(pt.x) /\ isFinite(pt.y)
                  /\ QLe(QAbs(QSub(pt.x, ret.start.x)), reach)
                  /\ QLe(QAbs(QSub(pt.y, ret.start.y)), reach)

\* the angle of every stroke of the pattern and the number of its strokes
StrokesOf(pat) ==
    { k \in 1 .. Len(pat.children) :
        pat.children[k].tag = "path" /\ pat.children[k].fill = NoPaint }

Built == defs[Len(defs)]

IsBlob(e) == e.tag = "path" /\ e.stroke = NoPaint
IsStroke(e) == e.tag = "path" /\ e.fill = NoPaint

\* lo <= v < hi
InBand(v, lo, hi) == QLe(lo, v) /\ QLt(v, hi)

\* C13: an oil-paint pattern has a 120 x 120 tile, one 120 x 120 base rect, then
\* 6 large, 8 medium and 12 small blob paths, each pass with a smaller size band
\* than the pass before, then 6 brush-stroke paths, whatever the draws.
C13_OilPaintStructure ==
    ret.op = "createOilPaintPattern" =>
        LET ch == Built.children
            layer(n) == { k \in 1 .. Len(ch) : IsBlob(ch[k]) /\ ch[k].layer = n }
        IN  /\ Built.width = 120 /\ Built.height = 120
            /\ Len(ch) = 1 + 6 + 8 + 12 + 6
            /\ ch[1].tag = "rect" /\ ch[1].width = 120 /\ ch[1].height = 120
            /\ layer(1) = 2 .. 7 /\ layer(2) = 8 .. 15 /\ layer(3) = 16 .. 27
            /\ \A k \in 28 .. 33 : IsStroke(ch[k])
            /\ \A k \in layer(1) : /\ InBand(ch[k].rx, QInt(25), QInt(75))
                                   /\ InBand(ch[k].ry, QInt(20), QInt(60))
            /\ \A k \in layer(2) : /\ InBand(ch[k].rx, QInt(10), QInt(40))
                                   /\ InBand(ch[k].ry, QInt(8), QInt(33))
            /\ \A k \in layer(3) : /\ InBand(ch[k].rx, QInt(4), QInt(16))
                                   /\ InBand(ch[k].ry, QInt(3), QInt(13))

\* a pattern whose blobs reach the small end of a band and go beyond its middle
C13_Witness ==
    /\ ret.op = "createOilPaintPattern"
    /\ Len(Built.children) = 33
    /\ Built.children[2].rx = QInt(25)
    /\ QLe(QInt(50), Built.children[3].rx)
    /\ Built.children[16].ry = QInt(3)

\* C14: the six brush strokes of an oil-paint pattern share one orientation,
\* horizontal or vertical; across the tile their base positions are 10, 30, 50,
\* 70, 90, 110, and every end point is within 7.5 of its base position on each
\* axis.
C14_BrushStrokes ==
    ret.op = "createOilPaintPattern" =>
        LET ch == Built.children
            strokes == { k \in 1 .. Len(ch) : IsStroke(ch[k]) }
            near(v, base) == QLe(QAbs(QSub(v, QInt(base))), Q(15, 2))
            positions == <<10, 30, 50, 70, 90, 110>>
        IN  /\ Cardinality(strokes) = 6
            /\ \A j, k \in strokes : ch[j].angle = ch[k].angle
            /\ \A k \in strokes :
                  LET across == positions[ch[k].slot + 1]
                  IN  \/ /\ ch[k].angle = 0
                         /\ near(ch[k].start.x, 0) /\ near(ch[k].end.x, 120)
                         /\ near(ch[k].start.y, across) /\ near(ch[k].end.y, across)
                      \/ /\ ch[k].angle = 90
                         /\ near(ch[k].start.y, 0) /\ near(ch[k].end.y, 120)
                         /\ near(ch[k].start.x, across) /\ near(ch[k].end.x, across)
            /\ { ch[k].slot : k \in strokes } = 0 .. 5

\* vertical strokes, the first displaced by the full 7.5 towards the origin
\* and the second not displaced towards it
C14_Witness ==
    /\ ret.op = "createOilPaintPattern"
    /\ Built.children[28].angle = 90 /\ Built.children[33].angle = 90
    /\ Built.children[28].start = Pt(Q(5, 2), Q(-15, 2))
    /\ QLe(QInt(30), Built.children[29].start.x)

\* the strokes of the directional pattern in ret, in the order of their slots
DirectionalStrokes == { k \in 1 .. Len(Built.children) : IsStroke(Built.children[k]) }
StrokeAt(i) == CHOOSE k \in DirectionalStrokes : Built.children[k].slot = i

StrokesParallelAndSpaced ==
    /\ Cardinality(DirectionalStrokes) = ret.density + 1
    /\ \A k \in DirectionalStrokes : Built.children[k].angle = ret.direction
    /\ \A i \in 0 .. ret.density - 1 :
          QSub(Built.children[StrokeAt(i + 1)].offset, Built.children[StrokeAt(i)].offset)
              = Q(ret.height, ret.density + 1)

BlobsOfLayer(n) ==
    { k \in 1 .. Len(Built.children) :
        IsBlob(Built.children[k]) /\ Built.children[k].layer = n }

ToneSigns ==
    \A n \in 1 .. 3 : \A k \in BlobsOfLayer(n) :
        IF Built.children[k].highlight THEN Built.children[k].brightness > 0
        ELSE Built.children[k].brightness < 0

\* C16 as stated: in each oil-paint blob layer a highlight blob has a positive
\* brightness delta and is more opaque than any shadow blob of the layer, and a
\* shadow blob has a negative brightness delta.
C16_HighlightMoreOpaque ==
    ret.op = "createOilPaintPattern" =>
        /\ ToneSigns
        /\ \A n \in 1 .. 3 : \A h, sh \in BlobsOfLayer(n) :
              (Built.children[h].highlight /\ ~Built.children[sh].highlight) =>
                  QLt(Built.children[sh].opacity, Built.children[h].opacity)

\* C16 amended: in each layer a highlight blob has a positive brightness delta
\* and a shadow blob a negative one; the opacity depends on the tone only in the
\* third layer, where a highlight's is in [0.2, 0.5) and a shadow's in
\* [0.1, 0.3); in the first layer it is in [0.2, 0.5) and in the second in
\* [0.15, 0.4) whatever the tone.
C16_ToneAndOpacity ==
    ret.op = "createOilPaintPattern" =>
        /\ ToneSigns
        /\ \A k \in BlobsOfLayer(1) : InBand(Built.children[k].opacity, Q(2, 10), Q(5, 10))
        /\ \A k \in BlobsOfLayer(2) : InBand(Built.children[k].opacity, Q(15, 100), Q(4, 10))
        /\ \A k \in BlobsOfLayer(3) :
              IF Built.children[k].highlight
              THEN InBand(Built.children[k].opacity, Q(2, 10), Q(5, 10))
              ELSE InBand(Built.children[k].opacity, Q(1, 10), Q(3, 10))

\* a second layer in which a highlight is less opaque than a shadow
C16_Witness ==
    /\ ret.op = "createOilPaintPattern"
    /\ \E h, sh \in BlobsOfLayer(2) :
          /\ Built.children[h].highlight /\ ~Built.children[sh].highlight
          /\ Built.children[h].brightness = 25 /\ Built.children[sh].brightness = -15
          /\ QLt(Built.children[h].opacity, Built.children[sh].opacity)

\* C20: in every generated fill pattern the base rect is the first child, all
\* blob paths come next and all stroke paths last.
C20_ChildOrder ==
    ret.op \in {"createDirectionalScribblePattern", "createOilPaintPattern"} =>
        LET ch == Built.children
        IN  /\ ch[1].tag = "rect"
            /\ \A k \in 2 .. Len(ch) : IsBlob(ch[k]) \/ IsStroke(ch[k])
            /\ \A j, k \in 2 .. Len(ch) : (IsStroke(ch[j]) /\ IsBlob(ch[k])) => k < j

C20_Witness ==
    /\ ret.op = "createDirectionalScribblePattern" /\ ret.density = 3
    /\ IsBlob(Built.children[5]) /\ IsStroke(Built.children[6])
    /\ Len(Built.children) = 9

\* the pairs of random draws with which a further call on the inputs of the call
\* in ret computes the control point of index k that the call in ret computed
SameSample(k) ==
    {rr \in Rand \X Rand :
        JitteredSample(ret.path, ret.jitter, ret.numPoints, k - 1, rr[1], rr[2],
                       IF Len(ret.path) = 0 THEN "origin" ELSE "point")
            = ret.points[k]}

HandDrawn == ret.op = "addHandDrawnEffect" /\ ~ret.threw

\* C17 as stated: after a completed addHandDrawnEffect call, every further call
\* on the same inputs yields different control points, whatever jitterAmount
\* >= 0 is: some control point of the first call cannot be drawn again.
C17_AlwaysDifferent ==
    HandDrawn => \E k \in 1 .. Len(ret.points) : SameSample(k) = {}

\* C17 amended: the control points of addHandDrawnEffect depend on the random
\* draws exactly when jitterAmount > 0: then each control point is reproduced
\* by one pair of draws only (a further call differs as soon as one of its
\* draws differs), and with jitterAmount = 0 every further call reproduces the
\* control points whatever it draws.
C17_DependsOnDraws ==
    HandDrawn =>
        \A k \in 1 .. Len(ret.points) :
            IF ret.jitter = 0 THEN SameSample(k) = Rand \X Rand
            ELSE Cardinality(SameSample(k)) = 1

C17_Witness ==
    /\ HandDrawn /\ ret.path = Bend /\ ret.jitter = 0 /\ ret.numPoints = 2
    /\ \A k \in 1 .. Len(ret.points) :
          ret.points[k] = Pt(20 * RandDen * ExactSample(k - 1).x,
                             20 * RandDen * ExactSample(k - 1).y)

\* the exact sample of index i of series k of the graph, times numPoints
SeriesSample(k, i) ==
    getPointAtLength(graph.series[k].pathString,
                     getTotalLength(graph.series[k].pathString) * i,
                     graph.series[k].d.numPoints)

\* C18 as stated: in a graph drawn with the hand-drawn effect, every sample of
\* every series path lies within settings.jitter / 2 of the exact sample on
\* each axis, settings.jitter being the `jitter` option (default 1.9).
C18_JitterOptionBounds ==
    (graph.drawn /\ graph.settings.handDrawnEffect) =>
        \A k \in 1 .. Len(graph.series) :
            \A i \in 1 .. Len(graph.series[k].d.points) :
                LET pt == graph.series[k].d.points[i]
                    n == graph.series[k].d.numPoints
                    half == n * RandDen * graph.settings.jitter
                IN  /\ Abs(pt.x - 20 * RandDen * SeriesSample(k, i - 1).x) <= half
                    /\ Abs(pt.y - 20 * RandDen * SeriesSample(k, i - 1).y) <= half

NoFilterAt(ref) == ref = "null"

\* C19: in a graph drawn with handDrawnEffect = false, at every moment of its
\* life (tooltip created, updated, hidden, removed): the d attribute of each
\* series is the line generator's path string, every dot is at the exact
\* position of its data point, every legend entry at its exact position, no
\* filter is defined, no element (legend background, legend entry, tooltip
\* background, tooltip item) refers to a filter, and createGraph made no
\* Math.random() call.
C19_EffectDisabled ==
    (graph.drawn /\ ~graph.settings.handDrawnEffect) =>
        /\ graph.randoms = 0
        /\ graph.filters = {}
        /\ \A b \in 1 .. Len(graph.legendBorder) : NoFilterAt(graph.legendBorder[b])
        /\ \A k \in 1 .. Len(graph.series) :
             LET sr == graph.series[k]
             IN  /\ sr.d.from = "pathString" /\ sr.d.points = <<>>
                 /\ \A i \in 1 .. Len(sr.pathString) :
                       sr.dots[i] = Pt(QInt(sr.pathString[i].x),
                                       QInt(sr.pathString[i].y))
                 /\ sr.legendRect.x = QInt(0)
                 /\ sr.legendRect.y = QInt((k - 1) * 20)
                 /\ sr.legendText.x = QInt(15)
                 /\ sr.legendText.y = QInt((k - 1) * 20 + 8)
                 /\ NoFilterAt(sr.legendRect.filter)
        /\ graph.tooltip.created =>
             /\ NoFilterAt(graph.tooltip.tipBackground.filter)
             /\ \A t \in 1 .. Len(graph.tooltip.tipItems) :
                   NoFilterAt(graph.tooltip.tipItems[t].filter)

C19_Witness ==
    /\ graph.drawn /\ ~graph.settings.handDrawnEffect
    /\ Len(graph.series) = 2 /\ Len(graph.legendBorder) = 1
    /\ graph.tooltip.created /\ graph.tooltip.visibility = "visible"
    /\ graph.tooltip.title = "Q2" /\ Len(graph.tooltip.tipItems) = 2
    /\ graph.hoverLine.at = 2

\* the colour adjustColor parses is achromatic: r = g = b
AchromaticInput ==
    LET computed == getComputedColor(ret.color, bodyColor)
    IN  /\ rgbMatch(computed)
        /\ computed.rgb[1] = computed.rgb[2] /\ computed.rgb[2] = computed.rgb[3]

\* C30: adjustColor on an achromatic colour (r = g = b), with any brightnessDelta
\* and saturationDelta, returns a colour whose three channels are equal.
C30_AchromaticStaysGrey ==
    (ret.op = "adjustColor" /\ AchromaticInput) =>
        /\ ret.result.value.form = "rgb"
        /\ ret.result.value.rgb[1] = ret.result.value.rgb[2]
        /\ ret.result.value.rgb[2] = ret.result.value.rgb[3]

\* C26: a tooltip, after its construction and after any sequence of update
\* calls, has one rendered item group per element of its current items array,
\* the group of item i drawn at row i (y = 37 + 20 * i), a background of
\* height (items.length + 1) * 20 + 10, and no item <svg> among the children
\* of its <svg> other than the current groups.
C26_ItemsRendered ==
    tip.created =>
        /\ Len(tip.tipItems) = Len(tip.items)
        /\ \A i \in 1 .. Len(tip.items) :
              /\ tip.tipItems[i].item = tip.items[i]
              /\ tip.tipItems[i].y = 37 + 20 * (i - 1)
        /\ tip.tipBackground.height = QInt((Len(tip.items) + 1) * 20 + 10)
        /\ SelectSeq(tip.children, LAMBDA e : e.tag = "svg") = tip.tipItems

C26_Witness ==
    /\ tip.created /\ tip.tipBackground.width.from = "getBBox"
    /\ tip.items = <<Item("red", "a: 1")>>
    /\ Len(tip.children) = 3
    /\ tip.tipBackground.height = QInt(50)

\* C27: with position type 'auto' and the pointer inside the chart
\* (0 <= x <= chartWidth, 0 <= y <= chartHeight), the origin _getUpLeftX /
\* _getUpLeftY compute keeps the tooltip, whose size is the background size
\* plus 20, within the right and the bottom edge of the chart.
C27_AutoInsideChart ==
    (/\ tip.created /\ tip.position.type = "auto"
     /\ 0 <= tip.position.x /\ tip.position.x <= tip.chartWidth
     /\ 0 <= tip.position.y /\ tip.position.y <= tip.chartHeight) =>
        /\ QLe(QAdd(getUpLeftX(tip), QAdd(getBackgroundWidth(tip), QInt(20))),
               QInt(tip.chartWidth))
        /\ QLe(QAdd(getUpLeftY(tip), QAdd(getBackgroundHeight(tip), QInt(20))),
               QInt(tip.chartHeight))

C27_Witness ==
    /\ tip.created /\ tip.position = [type |-> "auto", x |-> 150, y |-> 200]
    /\ tip.title = "A rather long title" /\ Len(tip.items) = 3
    /\ tip.x = getUpLeftX(tip) /\ tip.y = getUpLeftY(tip)
    /\ QLt(tip.x, QInt(0)) /\ tip.y = QInt(80)

\* the outline of a rectangle no point of which is displaced
PlainRect(rc) ==
    ClosePath(RectEdgePoints(rc, 0, [k \in 1 .. 4 * (RectSidePoints + 1) |-> 0]))

\* a pie chart drawn with handDrawnEffect = false: arcs and legend entries
PieGeometryExact ==
    /\ \A i \in 1 .. Len(pie.arcs) :
          /\ pie.arcs[i].d.from = "arc" /\ pie.arcs[i].d.points = <<>>
          /\ NoFilterAt(pie.arcs[i].filter)
    /\ \A i \in 1 .. Len(pie.legend) :
          /\ pie.legend[i].rect.x = QInt(0) /\ pie.legend[i].rect.y = QInt(0)
          /\ pie.legend[i].text.x = QInt(15) /\ pie.legend[i].text.y = QInt(8)
          /\ NoFilterAt(pie.legend[i].rect.filter)

\* no element of the chart, its tooltip included, refers to a filter
PieNoFilter ==
    /\ pie.filters = {}
    /\ \A b \in 1 .. Len(pie.legendBorder) : NoFilterAt(pie.legendBorder[b].filter)
    /\ pie.tooltip.created =>
          /\ NoFilterAt(pie.tooltip.tipBackground.filter)
          /\ \A t \in 1 .. Len(pie.tooltip.tipItems) :
                NoFilterAt(pie.tooltip.tipItems[t].filter)

\* C29: in a pie chart drawn with handDrawnEffect = false the arc paths are
\* the arc generator's output, the legend entries sit at their exact
\* positions, the outline of the legend border is the plain rectangle, and no
\* element refers to the xkcdify filter.
C29_PieEffectDisabled ==
    (pie.drawn /\ ~pie.settings.handDrawnEffect) =>
        /\ PieGeometryExact
        /\ PieNoFilter
        /\ \A b \in 1 .. Len(pie.legendBorder) :
              Len(pie.arcs) > 0 =>
                 pie.legendBorder[b].points = PlainRect(pie.legendBorder[b].rect)

\* what holds of such a chart: everything but the outline of the legend border
PieEffectDisabledButBorder ==
    (pie.drawn /\ ~pie.settings.handDrawnEffect) =>
        PieGeometryExact /\ PieNoFilter

\* C28: in a pie chart, arcs and legend entries follow the input data in its
\* order, and for every index i the legend swatch i and the arc i have the
\* same fill: the i-th fill pattern reference when useScribbleFill is true and
\* the pattern set is not empty, and otherwise the colour of entry i, the one
\* given or else the default the colour scale hands out.
C28_SwatchMatchesArc ==
    pie.drawn =>
        /\ Len(pie.arcs) = Len(pie.data) /\ Len(pie.legend) = Len(pie.data)
        /\ pie.settings.useScribbleFill => Len(pie.fillPatterns) = Len(pie.data)
        /\ \A i \in 1 .. Len(pie.data) :
              /\ pie.arcs[i].label = PieLabel(i)
              /\ pie.legend[i].text.label = PieLabel(i)
              /\ pie.legend[i].rect.fill = pie.arcs[i].fill
              /\ pie.arcs[i].fill =
                    IF pie.settings.useScribbleFill /\ pie.fillPatterns # <<>>
                    THEN pie.fillPatterns[i]
                    ELSE IF pie.data[i] # Null THEN pie.data[i]
                    ELSE ProcessedColors(pie.data)[i]
              /\ (pie.settings.useScribbleFill /\ pie.fillPatterns # <<>>) =>
                    pie.fillPatterns[i] = Url(defs[i].id)

C28_Witness ==
    /\ pie.drawn /\ pie.data = <<Null, Hex(54, 162, 235)>>
    /\ pie.settings.useScribbleFill /\ pie.settings.fillStyle = "oilpaint"
    /\ pie.arcs[2].fill = Url(defs[2].id) /\ pie.arcs[1].fill # pie.arcs[2].fill
    /\ pie.legend[1].rect.fill = pie.arcs[1].fill
    /\ pie.tooltip.created /\ pie.cleaned

C28_WitnessPlain ==
    /\ pie.drawn /\ pie.data = <<Null, Hex(54, 162, 235)>>
    /\ ~pie.settings.useScribbleFill
    /\ pie.arcs[1].fill = schemeCategory10[1]
    /\ pie.legend[2].rect.fill = Hex(54, 162, 235)

\* C21: the step in which createPieChart draws the chart adds one pattern
\* element per data entry when useScribbleFill is true and none otherwise,
\* and leaves the patterns already there alone; every later step (mouseover,
\* mousemove, mouseout, cleanup, the return of the call) leaves every pattern
\* element as it is.
C21_PatternsOnlyAtBuild ==
    [][ /\ pie.drawn => defs' = defs
        /\ (~pie.drawn /\ pie'.drawn) =>
              /\ Len(defs') = Len(defs) + (IF pie'.settings.useScribbleFill
                                           THEN Len(pie'.data) ELSE 0)
              /\ SubSeq(defs', 1, Len(defs)) = defs ]_vars

C21_Witness ==
    /\ pie.drawn /\ pie.settings.useScribbleFill /\ Len(pie.data) = 2
    /\ Len(defs) = 2 /\ defs[1].children[1].fill = pie.colors[1]
    /\ pie.tooltip.created /\ ~pie.tooltip.attached
    /\ pie.tooltip.visibility = "hidden" /\ pie.cleaned

\* a tooltip element of the chart is in the document
TooltipAttached(chart) ==
    chart.drawn /\ chart.tooltip.created /\ chart.tooltip.attached

RemovedStaysRemoved ==
    [][ /\ (graph.drawn /\ graph.cleaned /\ graph.tooltip.created
              /\ ~graph.tooltip.attached) => ~graph'.tooltip.attached
        /\ (pie.drawn /\ pie.cleaned /\ pie.tooltip.created
              /\ ~pie.tooltip.attached) => ~pie'.tooltip.attached ]_vars

\* the mousemove handlers, as steps of a chart
GraphMousemove == \E position \in MousePositions : mousemove(position)

\* what only a mouseover does: the hover line shown, an arc pulled out
GraphHovered(g) == g.hoverLine.opacity = 1

PieHovered(p) == \E i \in 1 .. Len(p.arcs) : p.arcs[i].transform = "pulled out"

PieMousemove == \E position \in PieMousePositions : pieMousemove(position)

\* C24: for a chart, graph or pie, at most one XkcdTooltip is ever
\* constructed; a chart that a mouseover reached has it, no later step
\* constructs another or drops it, and a mousemove before the first mouseover
\* changes nothing of the chart.
C24_OneTooltipPerChart ==
    [][ /\ graph.drawn =>
            /\ graph'.constructed <= 1
            /\ graph'.tooltip.created <=> graph'.constructed = 1
            /\ graph.tooltip.created =>
                  graph'.tooltip.created /\ graph'.constructed = graph.constructed
            /\ GraphHovered(graph') => graph'.tooltip.created
            /\ (~graph.tooltip.created /\ GraphMousemove) => graph' = graph
        /\ pie.drawn =>
            /\ pie'.constructed <= 1
            /\ pie'.tooltip.created <=> pie'.constructed = 1
            /\ pie.tooltip.created =>
                  pie'.tooltip.created /\ pie'.constructed = pie.constructed
            /\ PieHovered(pie') => pie'.tooltip.created
            /\ (~pie.tooltip.created /\ PieMousemove) => pie' = pie ]_vars

C24_Witness ==
    /\ pie.drawn /\ pie.constructed = 1 /\ pie.tooltip.created
    /\ Len(pie.arcs) = 2 /\ pie.arcs[1].transform = "translate(0, 0)"
    /\ pie.arcs[2].transform = "pulled out" /\ pie.tooltip.title = PieLabel(2)
    /\ pie.tooltip.visibility = "visible"

\* the mouseover handler of the graph, as a step
GraphMouseover ==
    graph.drawn /\ \E index \in 1 .. graph.labels :
        \E position \in MousePositions : mouseover(index, position)

\* the radii of the data points
DotRadii(g) == [k \in DOMAIN g.dotStyle |-> [i \in DOMAIN g.dotStyle[k] |-> g.dotStyle[k][i].r]]

\* the visibility style of the tooltip, if there is one
TooltipVisibility(g) == IF g.tooltip.created THEN g.tooltip.visibility ELSE "none"

\* C25: in the line graph, every mouseover step ends with the tooltip's
\* visibility 'visible' and the hover line at opacity 1; every mouseout step
\* ends with the tooltip (if one exists) hidden, the hover line at opacity 0
\* and every data point of every series at radius pointRadius with stroke
\* 'none'; a mousemove step changes neither the tooltip's visibility, nor the
\* hover line, nor the radius of any point.
C25_HoverState ==
    [][ graph.drawn =>
          /\ \/ /\ graph'.tooltip.created
                /\ graph'.tooltip.visibility = "visible"
                /\ graph'.hoverLine.opacity = 1
             \/ ~GraphMouseover
          /\ \/ /\ TooltipVisibility(graph') \in {"hidden", "none"}
                /\ graph'.hoverLine.opacity = 0
                /\ \A k \in DOMAIN graph'.dotStyle : \A j \in DOMAIN graph'.dotStyle[k] :
                      graph'.dotStyle[k][j] =
                         [r |-> QInt(graph.settings.pointRadius), stroke |-> "none"]
             \/ ~mouseout
          /\ \/ /\ TooltipVisibility(graph') = TooltipVisibility(graph)
                /\ graph'.hoverLine = graph.hoverLine
                /\ DotRadii(graph') = DotRadii(graph)
             \/ ~GraphMousemove ]_vars

C25_Witness ==
    /\ graph.drawn /\ ~graph.cleaned /\ graph.tooltip.created
    /\ graph.tooltip.visibility = "hidden" /\ graph.tooltip.title = "Q2"
    /\ graph.hoverLine = [opacity |-> 0, at |-> 2]
    /\ Len(graph.series) = 2 /\ graph.dotStyle[2][2].stroke = "none"

\* the pattern element a reference paints with: the first element of the
\* document that carries the identifier
Resolved(ref) ==
    defs[CHOOSE k \in Designated(ref) : \A j \in Designated(ref) : k <= j]

\* C22: what a call yields depends on nothing an earlier call left: the i-th
\* reference a pattern-set builder returns paints with the i-th pattern that
\* very call built, whatever the calls before it registered in the document.
C22_ResultIndependent ==
    ret.op \in {"createScribblePatternSet", "createOilPaintPatternSet"} =>
        \A i \in 1 .. Len(ret.value) :
            /\ Designated(ret.value[i]) # {}
            /\ Resolved(ret.value[i]) = defs[Len(defs) - Len(ret.value) + i]

=============================================================================
